---- MODULE Spec2Model ----
(***************************************************************************)
(* Model of the notion-obsidian-sync synchronization pipeline:             *)
(*   - FileManager  (src/utils/file_manager.py): filename conflict         *)
(*     detection / resolution, batched writes, atomic temp-then-rename     *)
(*     writes under per-path locks;                                        *)
(*   - CacheManager (src/services/cache_manager.py): change detection;     *)
(*   - RateLimiter / ConcurrentProcessor                                   *)
(*     (src/services/concurrent_processor.py);                             *)
(*   - SyncOrchestrator (src/services/sync_orchestrator.py).               *)
(* Each component has its own specification (SpecNames, SpecWrite,         *)
(* SpecCache, SpecRate, SpecExec, SpecSync) over its own variables.        *)
(***************************************************************************)
EXTENDS Integers, Sequences, FiniteSets, TLC

(***************************************************************************)
(* Bounds of the model.                                                    *)
(***************************************************************************)
MaxDocs == 3
MaxOps == 3
MaxRate == 2        \* rates 1..MaxRate tokens per second
MaxBurst == 2       \* burst limits 1..MaxBurst
Scale == 2          \* a token is Scale units: tokens are multiples of 1/Scale
MaxTime == 8        \* ticks the clock runs for
MaxAcquires == 6    \* acquire() calls made
MaxPages == 2       \* pages handed to the ConcurrentProcessor
MaxWorkers == 2     \* max_workers is 1..MaxWorkers
MaxItems == 2       \* pages in the Notion database
MaxBatch == 2       \* config.sync.batch_size is 1..MaxBatch

VARIABLES
    \* ---- FileManager, batch level (SpecNames) ----
    batch,        \* filenames of the MarkdownFiles handed to the FileManager
    existing,     \* names of the files present in sync_path
    conflicts,    \* last result of check_file_conflicts (dict key -> list)
    resolved,     \* last result of resolve_filename_conflicts
    report,       \* last result of safe_batch_write
    nop,          \* the FileManager operation that ran last
    \* ---- FileManager, single writes under threads (SpecWrite) ----
    fs,           \* file system: destination and temp files -> content
    orphans,      \* temp files no longer referenced by any running write
    fileLocks,    \* self._file_locks: path -> lock object
    lockOwner,    \* per lock object: the thread inside `with lock`, or NoThread
    locksLock,    \* self._locks_lock: its holder, or NoThread
    tpc,          \* per thread: position in the operation it runs
    top,          \* per thread: the operation and its locals
    tret,         \* per thread: value returned by its last operation
    ops,          \* number of operations started so far
    alive,        \* FALSE once the process has been interrupted (killed)
    \* ---- CacheManager (SpecCache) ----
    cache,        \* self.cache: page_id -> PageCacheEntry, or NoEntry
    query,        \* arguments of the last is_page_changed call, and the entry it read
    changed,      \* what that call returned
    \* ---- RateLimiter (SpecRate) ----
    rate,         \* self.max_requests_per_second
    burst,        \* self.burst_limit
    tokens,       \* self.tokens, in units of 1/Scale token
    last_update,  \* self.last_update, in ticks
    rlock,        \* self.lock (asyncio.Lock): the coroutine holding it
    now,          \* time.time(), in ticks of 1/(rate * Scale) second
    rpc,          \* per coroutine: position in acquire()
    wake,         \* per coroutine: the time its asyncio.sleep ends
    grants,       \* the times at which acquire() calls have returned
    calls,        \* number of acquire() calls made
    \* ---- ConcurrentProcessor (SpecExec) ----
    mode,         \* "async" (process_pages_async) or "threaded"
    pages,        \* the pages argument: a list of page ids
    raisesOn,     \* the pages on which processor_func raises
    max_workers,  \* self.max_workers
    semaphore,    \* free permits of the asyncio.Semaphore
    epc,          \* per page: position of its task in process_single_page
    completed,    \* outcomes of the finished tasks, not yet yielded by as_completed
    results,      \* the results list
    stats,        \* self.stats
    returned,     \* TRUE once the call has returned its results
    raised,       \* TRUE once an exception has escaped the call
    progress_callback, \* whether the call was given a progress callback
    progress,     \* the arguments of the callback's invocations, in order
    chunk_size,   \* process_pages_batch's batch_size argument
    \* ---- SyncOrchestrator (SpecSync) ----
    upstream,     \* the database: per page its filename and how its fetch and conversion end
    overwrite_existing, \* config.sync.overwrite_existing
    batch_size,   \* config.sync.batch_size
    vault,        \* names of the files in the vault's sync folder
    diskFaults,   \* positions of the batched write at which the disk will fail
    srun,         \* number of the sync_all_pages run
    spc,          \* position in sync_all_pages
    sbatch,       \* index of the next batch to process
    sresult,      \* the SyncResult of the run
    sexit,        \* the return statement the run has taken
    fileWrites,   \* files written by the run
    writeFailures,\* writes that failed in the run
    write_results,\* safe_batch_write's report: filename -> written or not
    synced,       \* TRUE once an earlier run has written every page
    asked,        \* the NotionClient operations the run has called
    escaped,      \* TRUE once an exception has left sync_all_pages
    \* ---- SyncOrchestrator's other operations (SpecOps) ----
    op,           \* the operation the caller has called last
    handledRun,   \* the run whose result handle_sync_interruption was given
    \* ---- NotionClient._retry_with_backoff (SpecRetry) ----
    script,       \* how the wrapped operation ends, per call made of it
    attempt,      \* the loop variable of _retry_with_backoff
    rtpc,         \* position in get_page_content / _retry_with_backoff
    attempts,     \* how the calls of the wrapped operation made so far have ended
    delays,       \* the delays slept between the attempts, in seconds
    rerror,       \* the exception that has left _retry_with_backoff
    surfaced,     \* the exception that has left get_page_content
    \* ---- CacheManager.get_changed_pages (SpecChanged) ----
    pages_data,   \* the candidates: page id and last_edited_time of each
    gpc,          \* what the caller has done so far
    changed_pages,\* what the latest get_changed_pages call has returned
    seen,         \* the cache as it was when that call was made
    applied,      \* the candidates handed to update_page_cache since
    \* ---- the destination directory's upkeep (SpecDir) ----
    directory,    \* the files of sync_path: name -> what the file holds
    dop,          \* the call made on the directory, with its inputs
    dresult,      \* the dictionary that call has returned
    before,       \* the directory as it was when the call was made
    \* ---- CacheManager and its page_cache.json (SpecStore) ----
    memory,       \* self.cache of the CacheManager in use
    cache_file,   \* the text of page_cache.json, None while there is no file
    today,        \* the clock (datetime.now()), in days
    stlast,       \* the operation of the CacheManager that returned last
    stcalls,      \* the operations called so far
    \* ---- RateLimiter.get_wait_time (SpecQuery) ----
    wait_query,   \* the latest call of get_wait_time: what it returned
    \* ---- what a run of sync_all_pages has asked of its collaborators ----
    requested,      \* the pages whose content get_page_content was asked for
    converted,      \* the pages handed to convert_page_to_markdown
    progress_calls, \* the (current, total) given to the progress callback
    writer_calls,   \* the documents given to safe_batch_write, per call
    has_callback    \* whether sync_all_pages was given a progress callback

namesVars == <<batch, existing, conflicts, resolved, report, nop>>

writeVars == <<fs, orphans, fileLocks, lockOwner, locksLock, tpc, top, tret,
               ops, alive>>

cacheVars == <<cache, query, changed>>

rateVars == <<rate, burst, tokens, last_update, rlock, now, rpc, wake, grants,
              calls>>

progressVars == <<progress_callback, progress>>

execVars == <<mode, pages, raisesOn, max_workers, semaphore, epc, completed,
              results, stats, returned, raised, progressVars, chunk_size>>

syncVars == <<upstream, overwrite_existing, batch_size, vault, diskFaults, srun, spc,
              sbatch, sresult, sexit, fileWrites, writeFailures,
              write_results, synced, asked, escaped>>

opsVars == <<op, handledRun>>

retryVars == <<script, attempt, rtpc, attempts, delays, rerror, surfaced>>

changedVars == <<pages_data, gpc, changed_pages, seen, applied>>

dirVars == <<directory, dop, dresult, before>>

storeVars == <<memory, cache_file, today, stlast, stcalls>>

queryVars == <<wait_query>>

traceVars == <<requested, converted, progress_calls, writer_calls,
               has_callback>>

vars == <<namesVars, writeVars, cacheVars, rateVars, execVars, syncVars,
          opsVars, retryVars, changedVars, dirVars, storeVars, queryVars, traceVars>>

\* the variables each component leaves alone
outsideNames == <<writeVars, cacheVars, rateVars, execVars, syncVars, opsVars,
                  retryVars, changedVars, dirVars, storeVars, queryVars, traceVars>>
outsideWrite == <<namesVars, cacheVars, rateVars, execVars, syncVars, opsVars,
                  retryVars, changedVars, dirVars, storeVars, queryVars, traceVars>>
outsideCache == <<namesVars, writeVars, rateVars, execVars, syncVars, opsVars,
                  retryVars, changedVars, dirVars, storeVars, queryVars, traceVars>>
outsideRate == <<namesVars, writeVars, cacheVars, execVars, syncVars, opsVars,
                  retryVars, changedVars, dirVars, storeVars, queryVars, traceVars>>
outsideExec == <<namesVars, writeVars, cacheVars, syncVars, opsVars,
                  retryVars, changedVars, dirVars, storeVars, queryVars, traceVars>>
outsideSync == <<namesVars, writeVars, cacheVars, rateVars, execVars, opsVars,
                  retryVars, changedVars, dirVars, storeVars, queryVars>>
outsideOps == <<namesVars, writeVars, cacheVars, rateVars, execVars,
                  retryVars, changedVars, dirVars, storeVars, queryVars>>
outsideRetry == <<namesVars, writeVars, cacheVars, rateVars, execVars,
                  syncVars, opsVars, changedVars, dirVars, storeVars, queryVars, traceVars>>
outsideChanged == <<namesVars, writeVars, rateVars, execVars, syncVars,
                    opsVars, retryVars, dirVars, storeVars, queryVars, traceVars>>
outsideDir == <<namesVars, writeVars, cacheVars, rateVars, execVars,
                syncVars, opsVars, retryVars, changedVars, storeVars, queryVars, traceVars>>
outsideStore == <<namesVars, writeVars, cacheVars, rateVars, execVars,
                  syncVars, opsVars, retryVars, changedVars, dirVars, queryVars, traceVars>>
outsideQuery == <<namesVars, writeVars, cacheVars, rateVars, execVars,
                  syncVars, opsVars, retryVars, changedVars, dirVars,
                  storeVars, traceVars>>

(***************************************************************************)
(* Helpers on sequences.                                                   *)
(***************************************************************************)
Range(s) == {s[i] : i \in 1..Len(s)}

Max(S) == CHOOSE x \in S : \A y \in S : y <= x

(***************************************************************************)
(* Filenames are Python strings, modelled as sequences of characters.      *)
(***************************************************************************)
NameUpper == <<"N", ".", "m", "d">>
NameLower == <<"n", ".", "m", "d">>
NameNumbered == <<"N", "_", "1", ".", "m", "d">>
NameNoExt == <<"N">>

FileNames == {NameUpper, NameLower, NameNumbered, NameNoExt}

\* str.lower() on one character of the alphabet
LowerChar(c) == IF c = "N" THEN "n" ELSE c

\* str.lower()
Lower(f) == [i \in 1..Len(f) |-> LowerChar(f[i])]

\* str.rfind('.') as a 1-based index, 0 when absent
RFindDot(f) ==
    LET dots == {i \in 1..Len(f) : f[i] = "."}
    IN  IF dots = {} THEN 0 ELSE Max(dots)

\* pathlib: PurePath.suffix (the last dot neither first nor last character)
PathSuffix(f) ==
    LET i == RFindDot(f)
    IN  IF i > 1 /\ i < Len(f) THEN SubSeq(f, i, Len(f)) ELSE <<>>

\* pathlib: PurePath.stem
PathStem(f) ==
    LET i == RFindDot(f)
    IN  IF i > 1 /\ i < Len(f) THEN SubSeq(f, 1, i - 1) ELSE f

DigitChar(d) == <<"0", "1", "2", "3", "4", "5", "6", "7", "8", "9">>[d + 1]

\* str(counter) for counter >= 1 (decimal digits)
RECURSIVE IntToStr(_)
IntToStr(n) ==
    IF n < 10 THEN <<DigitChar(n)>>
    ELSE IntToStr(n \div 10) \o <<DigitChar(n % 10)>>

\* glob("*.md") on a name
IsMarkdownName(f) ==
    Len(f) >= 3 /\ SubSeq(f, Len(f) - 2, Len(f)) = <<".", "m", "d">>

\* FileManager.list_markdown_files
ListMarkdownFiles(files) == {f \in files : IsMarkdownName(f)}

(***************************************************************************)
(* FileManager._get_unique_filename                                        *)
(***************************************************************************)
RECURSIVE UniqueFrom(_, _, _, _)
UniqueFrom(stem, suffix, counter, used) ==
    LET new_filename == stem \o <<"_">> \o IntToStr(counter) \o suffix
    IN  IF new_filename \notin used THEN new_filename
        ELSE UniqueFrom(stem, suffix, counter + 1, used)

\* a numbering that starts at 2
GetUniqueFilenameFromTwo(filename, used) ==
    IF filename \notin used THEN filename
    ELSE UniqueFrom(PathStem(filename), PathSuffix(filename), 2, used)

GetUniqueFilename(filename, used) ==
    IF filename \notin used THEN filename
    ELSE UniqueFrom(PathStem(filename), PathSuffix(filename), 1, used)

(***************************************************************************)
(* FileManager.resolve_filename_conflicts                                  *)
(***************************************************************************)
RECURSIVE ResolveLoop(_, _, _, _)
ResolveLoop(files, i, used, acc) ==
    IF i > Len(files) THEN acc
    ELSE LET r == GetUniqueFilename(files[i], used)
         IN  ResolveLoop(files, i + 1, used \cup {r}, Append(acc, r))

ResolveFilenameConflicts(files) == ResolveLoop(files, 1, {}, <<>>)

(***************************************************************************)
(* FileManager.check_file_conflicts: a dict from conflict key to the list  *)
(* of names involved.  The key of a duplicate group is the lower-cased     *)
(* name, the key of a clash with a file on disk is "existing_" + name.     *)
(***************************************************************************)
ExistingPrefix == <<"existing_">>
ExistingMarker == <<"existing file">>

DictPut(d, k, v) == [x \in DOMAIN d \cup {k} |-> IF x = k THEN v ELSE d[x]]

EmptyDict == [x \in {} |-> <<>>]

RECURSIVE DuplicateLoop(_, _, _, _)
DuplicateLoop(files, i, filename_map, confl) ==
    IF i > Len(files) THEN confl
    ELSE LET filename == Lower(files[i])
         IN  IF filename \in DOMAIN filename_map
             THEN LET started == IF filename \in DOMAIN confl
                                 THEN confl[filename]
                                 ELSE <<filename_map[filename]>>
                  IN  DuplicateLoop(files, i + 1, filename_map,
                                    DictPut(confl, filename, Append(started, files[i])))
             ELSE DuplicateLoop(files, i + 1,
                                DictPut(filename_map, filename, files[i]), confl)

RECURSIVE ExistingLoop(_, _, _, _)
ExistingLoop(files, i, onDisk, confl) ==
    IF i > Len(files) THEN confl
    ELSE IF files[i] \in ListMarkdownFiles(onDisk)
         THEN ExistingLoop(files, i + 1, onDisk,
                           DictPut(confl, ExistingPrefix \o files[i],
                                   <<files[i], ExistingMarker>>))
         ELSE ExistingLoop(files, i + 1, onDisk, confl)

CheckFileConflicts(files, onDisk) ==
    ExistingLoop(files, 1, onDisk, DuplicateLoop(files, 1, EmptyDict, EmptyDict))

(***************************************************************************)
(* FileManager.write_markdown_file / write_multiple_markdown_files at      *)
(* batch level: the documents are written one after the other; `failing`   *)
(* holds the positions whose _atomic_write (or ensure_directory_exists)    *)
(* raises and so returns False.  The result dict is keyed by filename.     *)
(***************************************************************************)
WriteMarkdownFileOk(filename, overwrite, fails, onDisk) ==
    IF filename \in onDisk /\ ~overwrite THEN FALSE
    ELSE ~fails

RECURSIVE WriteLoop(_, _, _, _, _, _)
WriteLoop(files, i, overwrite, failing, onDisk, res) ==
    IF i > Len(files) THEN [disk |-> onDisk, write_results |-> res]
    ELSE LET success == WriteMarkdownFileOk(files[i], overwrite, i \in failing, onDisk)
         IN  WriteLoop(files, i + 1, overwrite, failing,
                       IF success THEN onDisk \cup {files[i]} ELSE onDisk,
                       DictPut(res, files[i], success))

WriteMultipleMarkdownFiles(files, overwrite, failing, onDisk) ==
    WriteLoop(files, 1, overwrite, failing, onDisk, [x \in {} |-> FALSE])

(***************************************************************************)
(* FileManager.safe_batch_write                                            *)
(***************************************************************************)
CountTrue(d) == Cardinality({k \in DOMAIN d : d[k]})
\* a failed_writes that counts every document of the report
CountFalseOfAll(d) == Cardinality(DOMAIN d)
CountFalse(d) == Cardinality({k \in DOMAIN d : ~d[k]})

WrittenNames(files, resolve_conflicts, onDisk) ==
    LET c == CheckFileConflicts(files, onDisk)
    IN  IF resolve_conflicts /\ DOMAIN c # {}
        THEN ResolveFilenameConflicts(files)
        ELSE files

SafeBatchWriteResult(files, overwrite, resolve_conflicts, failing, onDisk) ==
    LET c == CheckFileConflicts(files, onDisk)
        names == WrittenNames(files, resolve_conflicts, onDisk)
        w == WriteMultipleMarkdownFiles(names, overwrite, failing, onDisk)
    IN  [conflicts_detected |-> Cardinality(DOMAIN c),
         conflicts_resolved |-> IF resolve_conflicts THEN Cardinality(DOMAIN c) ELSE 0,
         write_results      |-> w.write_results,
         successful_writes  |-> CountTrue(w.write_results),
         failed_writes      |-> CountFalse(w.write_results),
         names              |-> names,
         disk               |-> w.disk]

NoReport ==
    [conflicts_detected |-> 0, conflicts_resolved |-> 0,
     write_results |-> [x \in {} |-> FALSE],
     successful_writes |-> 0, failed_writes |-> 0,
     overwrite |-> TRUE, resolve_conflicts |-> TRUE, documents |-> 0]

(***************************************************************************)
(* SpecNames: the FileManager's batch operations on one batch of           *)
(* documents and one destination directory.                                *)
(***************************************************************************)
Batches == UNION {[1..n -> FileNames] : n \in 1..MaxDocs}

NamesInit ==
    /\ batch \in Batches
    /\ existing \in SUBSET {NameUpper, NameNumbered}
    /\ conflicts = EmptyDict
    /\ resolved = <<>>
    /\ report = NoReport
    /\ nop = "none"

NamesCheckFileConflicts ==
    /\ conflicts' = CheckFileConflicts(batch, existing)
    /\ nop' = "check"
    /\ UNCHANGED <<batch, existing, resolved, report, outsideNames>>

NamesResolveFilenameConflicts ==
    /\ resolved' = ResolveFilenameConflicts(batch)
    /\ nop' = "resolve"
    /\ UNCHANGED <<batch, existing, conflicts, report, outsideNames>>

NamesSafeBatchWrite ==
    \E overwrite \in BOOLEAN, resolve_conflicts \in BOOLEAN,
       failing \in SUBSET (1..Len(batch)) :
        LET r == SafeBatchWriteResult(batch, overwrite, resolve_conflicts,
                                      failing, existing)
        IN  /\ report = NoReport      \* one batched write per batch
            /\ report' = [conflicts_detected |-> r.conflicts_detected,
                          conflicts_resolved |-> r.conflicts_resolved,
                          write_results      |-> r.write_results,
                          successful_writes  |-> r.successful_writes,
                          failed_writes      |-> r.failed_writes,
                          overwrite          |-> overwrite,
                          resolve_conflicts  |-> resolve_conflicts,
                          documents          |-> Len(batch)]
            /\ batch' = r.names
            /\ existing' = r.disk
            /\ nop' = "write"
            /\ UNCHANGED <<conflicts, resolved, outsideNames>>

NamesNext ==
    \/ NamesCheckFileConflicts
    \/ NamesResolveFilenameConflicts
    \/ NamesSafeBatchWrite

(***************************************************************************)
(* C2: after resolve_filename_conflicts the output filenames are pairwise  *)
(* distinct when compared case-insensitively, so one batched write with    *)
(* conflict resolution never writes two documents to the same name.        *)
(***************************************************************************)
PairwiseDistinctIgnoringCase(files) ==
    \A i, j \in 1..Len(files) : i # j => Lower(files[i]) # Lower(files[j])

C2_ResolvedNamesDistinctIgnoringCase ==
    /\ nop = "resolve" => PairwiseDistinctIgnoringCase(resolved)
    /\ (nop = "write" /\ report.resolve_conflicts)
          => PairwiseDistinctIgnoringCase(batch)

(***************************************************************************)
(* C40: the report of safe_batch_write counts every document it was given: *)
(* successful_writes + failed_writes is the number of documents and        *)
(* write_results has one entry per document, with conflict resolution or   *)
(* without, with duplicate filenames or without.                           *)
(***************************************************************************)
C40_EveryDocumentIsCounted ==
    nop = "write" =>
        /\ report.successful_writes + report.failed_writes = report.documents
        /\ Cardinality(DOMAIN report.write_results) = report.documents

(***************************************************************************)
(* SpecWrite: FileManager.write_markdown_file / _atomic_write,             *)
(* read_markdown_file and delete_file called from concurrent threads, a    *)
(* reader outside the process, and an interruption of the process.         *)
(* File contents are sequences of chunks; Absent marks a missing file.     *)
(***************************************************************************)
Threads == {"t1", "t2"}
NoThread == "none"
Paths == {"p1", "p2"}

Absent == <<"absent">>
OldContent == <<"o1", "o2">>
\* the document each caller writes
ContentOf(t) == IF t = "t1" THEN <<"a1", "a2">> ELSE <<"b1", "b2">>
Contents == {ContentOf(t) : t \in Threads}
WholeContents == Contents \cup {OldContent}

DestFile(p) == <<"dst", p, NoThread>>
\* tempfile.NamedTemporaryFile(dir=file_path.parent, ...): a fresh sibling file
TempFile(p, t) == <<"tmp", p, t>>
Files == {DestFile(p) : p \in Paths} \cup {TempFile(p, t) : p \in Paths, t \in Threads}

IdleOp ==
    [kind |-> "none", path |-> "p1", content |-> OldContent, overwrite |-> TRUE,
     lock |-> 0, missing |-> FALSE, temp_path |-> FALSE]

WriteInit ==
    /\ fs \in {f \in [Files -> {Absent, OldContent}] :
                 \A p \in Paths, t \in Threads : f[TempFile(p, t)] = Absent}
    /\ orphans = {}
    /\ fileLocks = [x \in {} |-> 0]
    /\ lockOwner = <<>>
    /\ locksLock = NoThread
    /\ tpc = [t \in Threads |-> "idle"]
    /\ top = [t \in Threads |-> IdleOp]
    /\ tret = [t \in Threads |-> <<"None">>]
    /\ ops = 0
    /\ alive = TRUE

RetNone == <<"None">>
RetTrue == <<"True">>
RetFalse == <<"False">>

Goto(t, label) ==
    /\ tpc' = [tpc EXCEPT ![t] = label]
    /\ UNCHANGED <<top, tret>>

GotoWith(t, label, locals) ==
    /\ tpc' = [tpc EXCEPT ![t] = label]
    /\ top' = [top EXCEPT ![t] = locals]
    /\ UNCHANGED tret

\* the operation returns: its locals are dropped
Return(t, value) ==
    /\ tpc' = [tpc EXCEPT ![t] = "idle"]
    /\ tret' = [tret EXCEPT ![t] = value]
    /\ top' = [top EXCEPT ![t] = [IdleOp EXCEPT !.kind = top[t].kind,
                                               !.path = top[t].path]]

\* a caller invokes write_markdown_file, read_markdown_file or delete_file
WriteCall(t) ==
    /\ alive /\ tpc[t] = "idle" /\ ops < MaxOps
    /\ \E kind \in {"write", "read", "delete"}, p \in Paths, ow \in BOOLEAN :
          /\ kind # "write" => ow
          /\ top' = [top EXCEPT ![t] = [IdleOp EXCEPT !.kind = kind, !.path = p,
                                           !.content = ContentOf(t),
                                           !.overwrite = ow]]
    /\ ops' = ops + 1
    /\ tpc' = [tpc EXCEPT ![t] = "begin"]
    /\ tret' = [tret EXCEPT ![t] = RetNone]
    /\ UNCHANGED <<fs, orphans, fileLocks, lockOwner, locksLock, alive, outsideWrite>>

\* write_markdown_file (lines 204-213), read_markdown_file (176-179),
\* delete_file (303-307): the checks made before the path lock is taken
WriteBegin(t) ==
    /\ alive /\ tpc[t] = "begin"
    /\ LET exists == fs[DestFile(top[t].path)] # Absent
       IN  \/ /\ top[t].kind = "write"
              /\ \/ /\ exists /\ ~top[t].overwrite
                    /\ Return(t, RetFalse)
                 \/ /\ ~(exists /\ ~top[t].overwrite)
                    /\ Goto(t, "l_enter")
                 \/ Return(t, RetFalse)   \* ensure_directory_exists raised
           \/ /\ top[t].kind \in {"read", "delete"}
              /\ IF exists
                 THEN Goto(t, "l_enter")
                 ELSE Return(t, IF top[t].kind = "read" THEN RetNone ELSE RetFalse)
    /\ UNCHANGED <<fs, orphans, fileLocks, lockOwner, locksLock, ops, alive,
                   outsideWrite>>

\* a lock dict read and filled without _locks_lock
LocksLockIgnored(t) == TRUE

(* _get_file_lock, lines 66-69: under _locks_lock, create the path's lock   *)
(* when the dict has none, and fetch it.                                    *)
LocksLockFree(t) == locksLock = NoThread

LockEnter(t) ==
    /\ alive /\ tpc[t] = "l_enter"
    /\ LocksLockFree(t)
    /\ locksLock' = t
    /\ Goto(t, "l_check")
    /\ UNCHANGED <<fs, orphans, fileLocks, lockOwner, ops, alive, outsideWrite>>

LockCheck(t) ==
    /\ alive /\ tpc[t] = "l_check"
    /\ GotoWith(t, "l_set",
                [top[t] EXCEPT !.missing = top[t].path \notin DOMAIN fileLocks])
    /\ UNCHANGED <<fs, orphans, fileLocks, lockOwner, locksLock, ops, alive,
                   outsideWrite>>

LockSet(t) ==
    /\ alive /\ tpc[t] = "l_set"
    /\ LET p == top[t].path
           fresh == Len(lockOwner) + 1
       IN  IF top[t].missing
           THEN /\ fileLocks' = DictPut(fileLocks, p, fresh)
                /\ lockOwner' = Append(lockOwner, NoThread)
                /\ GotoWith(t, "l_acquire",
                            [top[t] EXCEPT !.lock = fresh, !.missing = FALSE])
           ELSE /\ GotoWith(t, "l_acquire", [top[t] EXCEPT !.lock = fileLocks[p]])
                /\ UNCHANGED <<fileLocks, lockOwner>>
    /\ locksLock' = IF locksLock = t THEN NoThread ELSE locksLock
    /\ UNCHANGED <<fs, orphans, ops, alive, outsideWrite>>

\* `with lock:` (line 71)
LockAcquire(t) ==
    /\ alive /\ tpc[t] = "l_acquire"
    /\ lockOwner[top[t].lock] = NoThread
    /\ lockOwner' = [lockOwner EXCEPT ![top[t].lock] = t]
    /\ Goto(t, CASE top[t].kind = "write"  -> "w_mktemp"
                 [] top[t].kind = "read"   -> "r_read"
                 [] top[t].kind = "delete" -> "d_unlink")
    /\ UNCHANGED <<fs, orphans, fileLocks, locksLock, ops, alive, outsideWrite>>

ReleaseLock(t) == lockOwner' = [lockOwner EXCEPT ![top[t].lock] = NoThread]

\* an exception leaves `with self._get_file_lock(...)`: the lock is released
\* and control reaches the except clause of _atomic_write (line 283)
RaiseInWrite(t) ==
    /\ ReleaseLock(t)
    /\ Goto(t, "w_except")

\* a write that puts the content straight into the destination
WriteTargetInPlace(p, t) == DestFile(p)

\* the file the content is written into, chunk by chunk (lines 266-275)
WriteTarget(p, t) == TempFile(p, t)

WriteMkTemp(t) ==
    /\ alive /\ tpc[t] = "w_mktemp"
    /\ \/ /\ fs' = [fs EXCEPT ![WriteTarget(top[t].path, t)] = <<>>]
          /\ Goto(t, "w_write")
          /\ UNCHANGED lockOwner
       \/ /\ RaiseInWrite(t)              \* NamedTemporaryFile raised
          /\ UNCHANGED fs
    /\ UNCHANGED <<orphans, fileLocks, locksLock, ops, alive, outsideWrite>>

\* temp_file.write(content) then temp_path = Path(temp_file.name)
WriteContent(t) ==
    /\ alive /\ tpc[t] = "w_write"
    /\ \/ /\ fs' = [fs EXCEPT ![WriteTarget(top[t].path, t)] = <<top[t].content[1]>>]
          /\ GotoWith(t, "w_close", [top[t] EXCEPT !.temp_path = TRUE])
          /\ UNCHANGED lockOwner
       \/ /\ RaiseInWrite(t)              \* write raised: temp_path never bound
          /\ UNCHANGED fs
    /\ UNCHANGED <<orphans, fileLocks, locksLock, ops, alive, outsideWrite>>

\* leaving `with NamedTemporaryFile(...)`: the buffer is flushed, the file closed
WriteClose(t) ==
    /\ alive /\ tpc[t] = "w_close"
    /\ \/ /\ fs' = [fs EXCEPT ![WriteTarget(top[t].path, t)] = top[t].content]
          /\ Goto(t, "w_replace")
          /\ UNCHANGED lockOwner
       \/ /\ RaiseInWrite(t)              \* flush raised (e.g. disk full)
          /\ UNCHANGED fs
    /\ UNCHANGED <<orphans, fileLocks, locksLock, ops, alive, outsideWrite>>

\* temp_path.replace(file_path): one rename; then return True (lines 278-281)
WriteReplace(t) ==
    /\ alive /\ tpc[t] = "w_replace"
    /\ LET p == top[t].path
       IN  \/ /\ fs' = [fs EXCEPT ![DestFile(p)] = fs[WriteTarget(p, t)],
                                  ![TempFile(p, t)] = Absent]
              /\ ReleaseLock(t)
              /\ Return(t, RetTrue)
           \/ /\ RaiseInWrite(t)          \* rename raised
              /\ UNCHANGED fs
    /\ UNCHANGED <<orphans, fileLocks, locksLock, ops, alive, outsideWrite>>

\* except clause, lines 283-291: unlink the temp file when temp_path is bound;
\* otherwise the temp file stays behind under its random name
WriteExcept(t) ==
    /\ alive /\ tpc[t] = "w_except"
    /\ LET tmp == TempFile(top[t].path, t)
       IN  /\ fs' = [fs EXCEPT ![tmp] = Absent]
           /\ orphans' = IF ~top[t].temp_path /\ fs[tmp] # Absent
                         THEN orphans \cup {top[t].path}
                         ELSE orphans
    /\ Return(t, RetFalse)
    /\ UNCHANGED <<fileLocks, lockOwner, locksLock, ops, alive, outsideWrite>>

\* read_markdown_file, lines 182-190: open and read under the path lock
ReadFile(t) ==
    /\ alive /\ tpc[t] = "r_read"
    /\ ReleaseLock(t)
    /\ Return(t, IF fs[DestFile(top[t].path)] = Absent THEN RetNone
                 ELSE fs[DestFile(top[t].path)])
    /\ UNCHANGED <<fs, orphans, fileLocks, locksLock, ops, alive, outsideWrite>>

\* delete_file, lines 309-317: unlink under the path lock
DeleteFile(t) ==
    /\ alive /\ tpc[t] = "d_unlink"
    /\ LET d == DestFile(top[t].path)
       IN  IF fs[d] # Absent
           THEN fs' = [fs EXCEPT ![d] = Absent] /\ Return(t, RetTrue)
           ELSE UNCHANGED fs /\ Return(t, RetFalse)
    /\ ReleaseLock(t)
    /\ UNCHANGED <<orphans, fileLocks, locksLock, ops, alive, outsideWrite>>

\* the process is interrupted (killed) at an arbitrary step
Interrupt ==
    /\ alive
    /\ alive' = FALSE
    /\ UNCHANGED <<fs, orphans, fileLocks, lockOwner, locksLock, tpc, top, tret,
                   ops, outsideWrite>>

WriteNext ==
    \/ \E t \in Threads : WriteCall(t)
    \/ \E t \in Threads : WriteBegin(t)
    \/ \E t \in Threads : LockEnter(t)
    \/ \E t \in Threads : LockCheck(t)
    \/ \E t \in Threads : LockSet(t)
    \/ \E t \in Threads : LockAcquire(t)
    \/ \E t \in Threads : WriteMkTemp(t)
    \/ \E t \in Threads : WriteContent(t)
    \/ \E t \in Threads : WriteClose(t)
    \/ \E t \in Threads : WriteReplace(t)
    \/ \E t \in Threads : WriteExcept(t)
    \/ \E t \in Threads : ReadFile(t)
    \/ \E t \in Threads : DeleteFile(t)
    \/ Interrupt

(***************************************************************************)
(* C1: at every instant, also after an interruption at any step and for    *)
(* any reader, a destination file is absent or holds a complete content:   *)
(* its previous one or the complete new one, never a partial one.          *)
(***************************************************************************)
C1_DestinationNeverPartial ==
    /\ \A p \in Paths : fs[DestFile(p)] \in WholeContents \cup {Absent}
    /\ \A t \in Threads : tret[t] \in WholeContents \cup {RetNone, RetTrue, RetFalse}

\* a write was interrupted between its first chunk and its rename, over an
\* existing destination
C1_Witness ==
    /\ ~alive
    /\ \E t \in Threads :
          /\ tpc[t] = "w_close"
          /\ fs[TempFile(top[t].path, t)] = <<top[t].content[1]>>
          /\ fs[DestFile(top[t].path)] = OldContent

(***************************************************************************)
(* C33: whatever the interleaving of the writes, reads and deletes of one  *)
(* FileManager, one lock object at most is created per destination path,   *)
(* one thread at most is between the creation of the temp file and the     *)
(* rename for a path, the locks of different paths are different objects   *)
(* held only by operations on their own path, and some thread can always   *)
(* take a step while an operation is under way.                            *)
(***************************************************************************)
InWriteSection(t) == tpc[t] \in {"w_mktemp", "w_write", "w_close", "w_replace"}

\* a step of an operation under way
ThreadStep ==
    \E t \in Threads :
        \/ WriteBegin(t) \/ LockEnter(t) \/ LockCheck(t) \/ LockSet(t)
        \/ LockAcquire(t) \/ WriteMkTemp(t) \/ WriteContent(t)
        \/ WriteClose(t) \/ WriteReplace(t) \/ WriteExcept(t)
        \/ ReadFile(t) \/ DeleteFile(t)

C33_OneLockPerPathOneWriterPerPathNoDeadlock ==
    /\ Len(lockOwner) = Cardinality(DOMAIN fileLocks)
    /\ \A p, q \in DOMAIN fileLocks : fileLocks[p] = fileLocks[q] => p = q
    /\ \A t, u \in Threads :
          (t # u /\ InWriteSection(t) /\ InWriteSection(u))
              => top[t].path # top[u].path
    /\ \A p \in DOMAIN fileLocks :
          lockOwner[fileLocks[p]] # NoThread
              => top[lockOwner[fileLocks[p]]].path = p
    /\ (alive /\ \E t \in Threads : tpc[t] # "idle") => ENABLED ThreadStep

\* two writers are in their write sections at once, on different paths,
\* after both were ready to take the lock of their path
C33_Witness ==
    /\ InWriteSection("t1") /\ InWriteSection("t2")
    /\ top["t1"].path # top["t2"].path
    /\ Len(lockOwner) = 2

(***************************************************************************)
(* C35: an _atomic_write that fails, at the creation of the temp file, at  *)
(* the write or at the rename, returns False and leaves no temp file       *)
(* behind.                                                                 *)
(***************************************************************************)
C35_FailedWriteLeavesNoTempFile ==
    /\ orphans = {}
    /\ \A t \in Threads : tpc[t] = "idle" =>
          /\ tret[t] \in WholeContents \cup {RetNone, RetTrue, RetFalse}
          /\ \A p \in Paths : fs[TempFile(p, t)] = Absent

(***************************************************************************)
(* C36: a write_markdown_file with overwrite=False never replaces a file   *)
(* that exists: its rename happens only onto a name that is absent, also   *)
(* when two writers go for the same name that does not exist yet.          *)
(***************************************************************************)
C36_NoOverwriteNeverReplaces ==
    [][\A t \in Threads :
          (tpc[t] = "w_replace" /\ ~top[t].overwrite /\ tret'[t] = RetTrue)
              => fs[DestFile(top[t].path)] = Absent]_vars

(***************************************************************************)
(* SpecCache: CacheManager.  Optional arguments are None or Some(value);   *)
(* a properties dict is a set of <<key, value>> pairs.                     *)
(***************************************************************************)
None == <<>>
Some(x) == <<x>>

PageIds == {"pg1", "pg2"}
Revisions == {"rev1", "rev2"}
PageContents == {"text1", "text2"}
PropertyDicts == {{}, {<<"k", "v1">>}, {<<"k", "v2">>}}

OptionalContents == {None} \cup {Some(c) : c \in PageContents}
OptionalProperties == {None} \cup {Some(d) : d \in PropertyDicts}

NoEntry == [present |-> FALSE]

\* hashlib.sha256(...).hexdigest(): a digest, taken to be collision free
Sha256(text) == <<"sha256", text>>

\* CacheManager._calculate_content_hash
CalculateContentHash(content) == Sha256(content)

\* json.dumps(properties, sort_keys=True): None is rendered "null"
JsonDumps(optProps) ==
    IF optProps = None THEN <<"null">> ELSE <<"dict", optProps[1]>>

\* CacheManager._calculate_properties_hash
CalculatePropertiesHash(optProps) == Sha256(JsonDumps(optProps))

\* truth value of `properties` in `... if properties else None`
Truthy(optProps) == optProps # None /\ optProps[1] # {}

TitleOf(page_id) == <<"title", page_id>>
FilePathOf(page_id) == <<"path", page_id>>

\* CacheManager.update_page_cache: the entry stored
NewCacheEntry(page_id, last_edited_time, content, optProps) ==
    [present          |-> TRUE,
     page_id          |-> page_id,
     title            |-> TitleOf(page_id),
     last_edited_time |-> last_edited_time,
     content_hash     |-> CalculateContentHash(content),
     file_path        |-> FilePathOf(page_id),
     properties_hash  |-> IF Truthy(optProps)
                          THEN CalculatePropertiesHash(optProps) ELSE None]

\* an is_page_changed that skips the properties comparison
IsPageChangedIgnoringProperties(store, page_id, last_edited_time, optContent, optProps) ==
    LET cached_entry == store[page_id]
    IN  IF ~cached_entry.present THEN TRUE
        ELSE IF cached_entry.last_edited_time # last_edited_time THEN TRUE
        ELSE optContent # None
               /\ cached_entry.content_hash # CalculateContentHash(optContent[1])

\* CacheManager.is_page_changed
IsPageChanged(store, page_id, last_edited_time, optContent, optProps) ==
    LET cached_entry == store[page_id]
    IN  IF ~cached_entry.present THEN TRUE
        ELSE IF cached_entry.last_edited_time # last_edited_time THEN TRUE
        ELSE IF optContent # None
                  /\ cached_entry.content_hash # CalculateContentHash(optContent[1])
             THEN TRUE
        ELSE IF optProps # None
                  /\ cached_entry.properties_hash # CalculatePropertiesHash(optProps)
             THEN TRUE
        ELSE FALSE

NoQuery == [asked |-> FALSE]

CacheInit ==
    /\ cache = [id \in PageIds |-> NoEntry]
    /\ query = NoQuery
    /\ changed = FALSE

CacheUpdatePageCache ==
    \E id \in PageIds, rev \in Revisions, c \in PageContents,
       props \in OptionalProperties :
        /\ ~query.asked
        /\ cache' = [cache EXCEPT ![id] = NewCacheEntry(id, rev, c, props)]
        /\ UNCHANGED <<query, changed, outsideCache>>

CacheRemovePageCache ==
    \E id \in PageIds :
        /\ ~query.asked
        /\ cache[id].present
        /\ cache' = [cache EXCEPT ![id] = NoEntry]
        /\ UNCHANGED <<query, changed, outsideCache>>

CacheIsPageChanged ==
    \E id \in PageIds, rev \in Revisions, c \in OptionalContents,
       props \in OptionalProperties :
        /\ ~query.asked           \* the run ends with one observed query
        /\ query' = [asked |-> TRUE, page_id |-> id, last_edited_time |-> rev,
                     content |-> c, properties |-> props, entry |-> cache[id]]
        /\ changed' = IsPageChanged(cache, id, rev, c, props)
        /\ UNCHANGED <<cache, outsideCache>>

CacheNext ==
    \/ CacheUpdatePageCache
    \/ CacheRemovePageCache
    \/ CacheIsPageChanged

(***************************************************************************)
(* C3 as stated: is_page_changed returns true exactly when no entry        *)
(* exists, or the stored revision differs, or the stored content_hash      *)
(* differs from the hash of content, or the stored properties_hash differs *)
(* from the hash of props.  (The hash of an omitted content is no digest.) *)
(***************************************************************************)
NoDigest == <<"no digest">>

HashOfContent(optContent) ==
    IF optContent = None THEN NoDigest ELSE CalculateContentHash(optContent[1])

C3_ChangedIffAnyStoredValueDiffers ==
    query.asked =>
        LET e == query.entry
        IN  changed <=>
              \/ ~e.present
              \/ e.last_edited_time # query.last_edited_time
              \/ e.content_hash # HashOfContent(query.content)
              \/ e.properties_hash # CalculatePropertiesHash(query.properties)

(***************************************************************************)
(* C3 amended: content and props are compared only when they are given     *)
(* (not None): is_page_changed is true exactly when no entry exists, or    *)
(* the stored revision differs, or content is given and its hash differs   *)
(* from the stored content_hash, or props is given and its hash differs    *)
(* from the stored properties_hash.                                        *)
(***************************************************************************)
C3_ChangedIffAnyGivenValueDiffers ==
    query.asked =>
        LET e == query.entry
        IN  changed <=>
              \/ ~e.present
              \/ e.last_edited_time # query.last_edited_time
              \/ /\ query.content # None
                 /\ e.content_hash # HashOfContent(query.content)
              \/ /\ query.properties # None
                 /\ e.properties_hash # CalculatePropertiesHash(query.properties)

\* an entry with the same revision and content is reported changed because
\* only the given properties differ
C3_Witness ==
    /\ query.asked /\ changed
    /\ query.entry.present
    /\ query.entry.last_edited_time = query.last_edited_time
    /\ query.content # None
    /\ query.entry.content_hash = HashOfContent(query.content)
    /\ query.properties # None
    /\ query.entry.properties_hash # None

(***************************************************************************)
(* C38: is_page_changed(id, revision, content, properties) asked of a      *)
(* cache whose entry for id is the one update_page_cache has just stored   *)
(* for the same id, revision, content and properties returns false, for    *)
(* properties that are None or an empty mapping as well.                   *)
(***************************************************************************)
C38_UnchangedRightAfterUpdate ==
    (/\ query.asked /\ query.content # None
     /\ query.entry = NewCacheEntry(query.page_id, query.last_edited_time,
                                    query.content[1], query.properties))
        => ~changed

(***************************************************************************)
(* SpecRate: RateLimiter.acquire called by concurrent coroutines.          *)
(* Time is counted in ticks of 1/(rate * Scale) second and tokens in units *)
(* of 1/Scale token, so that `time_passed * rate` tokens is time_passed    *)
(* units and (1.0 - tokens) / rate seconds is (Scale - tokens) ticks.      *)
(***************************************************************************)
Coroutines == 1..MaxPages       \* one coroutine per task
Callers == {1, 2}               \* the coroutines calling acquire() directly
NoCoroutine == 0

OneToken == Scale
Second == rate * Scale          \* ticks in one second

Min(a, b) == IF a <= b THEN a ELSE b

\* a refill that forgets the burst_limit cap
RefillUncapped(tok, time_passed) == tok + time_passed

\* acquire(), lines 67-70: the refill
Refill(tok, time_passed) == Min(burst * OneToken, tok + time_passed)

\* a wait twice as long
WaitTimeDoubled(tok) == 2 * (OneToken - tok)
\* acquire(), line 78: wait_time in ticks
WaitTime(tok) == OneToken - tok

RateInit ==
    /\ rate \in 1..MaxRate
    /\ burst \in 1..MaxBurst
    /\ tokens = burst * OneToken
    /\ last_update = 0
    /\ rlock = NoCoroutine
    /\ now = 0
    /\ rpc = [c \in Coroutines |-> "idle"]
    /\ wake = [c \in Coroutines |-> 0]
    /\ grants = <<>>
    /\ calls = 0

\* a coroutine calls acquire() and reaches `async with self.lock`
RateCall(c) ==
    /\ rpc[c] = "idle" /\ calls < MaxAcquires
    /\ calls' = calls + 1
    /\ rpc' = [rpc EXCEPT ![c] = "lock"]
    /\ UNCHANGED <<rate, burst, tokens, last_update, rlock, now, wake, grants,
                   outsideRate>>

\* lines 62-80: the lock is taken, the bucket refilled and either a token is
\* consumed and acquire() returns, or the coroutine starts to sleep, still
\* holding the lock
RateEnter(c) ==
    /\ rpc[c] = "lock" /\ rlock = NoCoroutine
    /\ LET refilled == Refill(tokens, now - last_update)
       IN  /\ last_update' = now
           /\ IF refilled >= OneToken
              THEN /\ tokens' = refilled - OneToken
                   /\ grants' = Append(grants, now)
                   /\ rpc' = [rpc EXCEPT ![c] = "idle"]
                   /\ UNCHANGED <<rlock, wake>>
              ELSE /\ tokens' = refilled
                   /\ wake' = [wake EXCEPT ![c] = now + WaitTime(refilled)]
                   /\ rlock' = c
                   /\ rpc' = [rpc EXCEPT ![c] = "sleep"]
                   /\ UNCHANGED grants
    /\ UNCHANGED <<rate, burst, now, calls, outsideRate>>

\* lines 80-82: the sleep is over; tokens = 0.0; return True (lock released)
RateWake(c) ==
    /\ rpc[c] = "sleep" /\ now >= wake[c]
    /\ tokens' = 0
    /\ grants' = Append(grants, now)
    /\ rlock' = NoCoroutine
    /\ rpc' = [rpc EXCEPT ![c] = "idle"]
    /\ UNCHANGED <<rate, burst, last_update, now, wake, calls, outsideRate>>

\* time passes
RateTick ==
    /\ now < MaxTime
    /\ now' = now + 1
    /\ UNCHANGED <<rate, burst, tokens, last_update, rlock, rpc, wake, grants,
                   calls, outsideRate>>

RateNext ==
    \/ \E c \in Callers : RateCall(c)
    \/ \E c \in Callers : RateEnter(c)
    \/ \E c \in Callers : RateWake(c)
    \/ RateTick

(***************************************************************************)
(* SpecBurst: acquire() is called on a freshly created RateLimiter, call   *)
(* after call with no time in between: the clock moves only while a call   *)
(* sleeps.                                                                 *)
(***************************************************************************)
\* asyncio.sleep(wait_time): time passes for the sleeping coroutine
BurstSleep ==
    /\ \E c \in Callers : rpc[c] = "sleep" /\ wake[c] > now
    /\ now' = now + 1
    /\ UNCHANGED <<rate, burst, tokens, last_update, rlock, rpc, wake, grants,
                   calls, outsideRate>>

BurstNext ==
    \/ \E c \in Callers : RateCall(c)
    \/ \E c \in Callers : RateEnter(c)
    \/ \E c \in Callers : RateWake(c)
    \/ BurstSleep

\* the event loop runs every coroutine that is ready, and sleeps end
BurstFairness ==
    /\ \A c \in Callers : WF_vars(RateEnter(c)) /\ WF_vars(RateWake(c))
    /\ WF_vars(BurstSleep)

(***************************************************************************)
(* C22: on a fresh RateLimiter(rate, burst), with no time between the      *)
(* calls, the first burst acquire() calls return at once, the next one     *)
(* sleeps (1 - tokens) / rate = 1 / rate seconds before it returns, and    *)
(* every acquire() call returns.                                           *)
(***************************************************************************)
C22_BurstCallsAtOnceThenOneWait ==
    /\ [](\A k \in DOMAIN grants : k <= burst => grants[k] = 0)
    /\ [](\A c \in Callers : rpc[c] = "sleep" => Len(grants) >= burst)
    /\ [](Len(grants) > burst => grants[burst + 1] = Second \div rate)
    /\ \A c \in Callers : (rpc[c] # "idle") ~> (rpc[c] = "idle")

C22_Witness ==
    /\ Len(grants) = burst + 1
    /\ grants[burst] = 0
    /\ grants[burst + 1] > 0
    /\ burst > 1 /\ rate > 1

(***************************************************************************)
(* C34: under concurrent acquire() calls the bucket holds between 0 and    *)
(* burst tokens, tokens and last_update change only under the lock, and no *)
(* token is consumed by two callers: the tokens consumed by the calls that *)
(* have returned, with those still in the bucket, are no more than the     *)
(* burst tokens of the start and the tokens of the time elapsed.           *)
(***************************************************************************)
TokensInRange == tokens >= 0 /\ tokens <= burst * OneToken

\* tokens and last_update are assigned only by the coroutine that takes the
\* lock in this step or that holds it
AssignedUnderLock ==
    (tokens' # tokens \/ last_update' # last_update) =>
        \E c \in Callers :
            \/ rpc[c] = "lock" /\ rlock = NoCoroutine /\ rpc'[c] # "lock"
            \/ rpc[c] = "sleep" /\ rlock = c /\ rpc'[c] = "idle"

\* every token consumed was supplied: burst at the start, one unit per tick
ConsumedOnce == Len(grants) * OneToken + tokens <= burst * OneToken + now

C34_InRangeUnderLockConsumedOnce ==
    /\ []TokensInRange
    /\ [][AssignedUnderLock]_vars
    /\ []ConsumedOnce

(***************************************************************************)
(* C6: the number of acquire() calls that have returned within elapsed     *)
(* time t never exceeds burst + rate * t (t = now ticks = now / (rate *    *)
(* Scale) seconds, so rate * t = now / Scale tokens).                      *)
(***************************************************************************)
C6_GrantsWithinBurstPlusRateTimesElapsed ==
    Len(grants) * Scale <= burst * Scale + now

(***************************************************************************)
(* C7 (as stated): in any sliding 1-second window the number of tokens     *)
(* consumed by returning acquire() calls is at most burst.                 *)
(***************************************************************************)
GrantsInWindow(from, to) ==
    Cardinality({i \in 1..Len(grants) : grants[i] >= from /\ grants[i] < to})

MaxInOneSecond(limit) ==
    \A start \in 0..MaxTime + 1 : GrantsInWindow(start, start + Second) <= limit

Modes == {"async", "threaded"}

PageLists == {[k \in 1..n |-> k] : n \in 0..MaxPages}

\* processor_func: raises on the pages of `raisesOn`, returns a value otherwise
ProcessorRaises(page) == page \in raisesOn
ProcessorValue(page) == <<"value", page>>
ExceptionText(page) == <<"error", page>>

ProcessingResult(page_id, success, result, error) ==
    [page_id |-> page_id, success |-> success, result |-> result,
     error |-> error]

\* what a finished task (future) holds: a result, or the exception it raised
ReturnedOutcome(value) == [exception |-> FALSE, value |-> value]
RaisedOutcome(text) == [exception |-> TRUE, value |-> text]

\* a process_single_page whose processor call is not inside try/except
ProcessSinglePageWithoutExcept(page) ==
    IF ProcessorRaises(page)
    THEN RaisedOutcome(ExceptionText(page))
    ELSE ReturnedOutcome(ProcessingResult(page, TRUE,
                                          Some(ProcessorValue(page)), None))

\* process_single_page, lines 153-174 and 218-243: the try/except around
\* processor_func
ProcessSinglePage(page) ==
    IF ProcessorRaises(page)
    THEN ReturnedOutcome(ProcessingResult(page, FALSE, None,
                                          Some(ExceptionText(page))))
    ELSE ReturnedOutcome(ProcessingResult(page, TRUE,
                                          Some(ProcessorValue(page)), None))

\* RateLimiter.get_wait_time, in ticks
GetWaitTime(tok) == IF tok >= OneToken THEN 0 ELSE WaitTime(tok)

\* a semaphore that never blocks
SemaphoreNeverLocked == TRUE

\* `async with semaphore`: a permit is free
SemaphoreFree == semaphore > 0

\* the pool threads that are running a work item
BusyWorkers == {k \in DOMAIN pages : epc[k] \in {"sleep", "run"}}

\* the processor_func invocations in progress
InProgress == {k \in DOMAIN pages : epc[k] = "run"}

ZeroStats == [total_processed |-> 0, successful |-> 0, failed |-> 0]

\* _update_stats
UpdateStats(st, res) ==
    LET successful == Cardinality({i \in DOMAIN res : res[i].success})
        failed == Len(res) - successful
    IN  [total_processed |-> st.total_processed + Len(res),
         successful |-> st.successful + successful,
         failed |-> st.failed + failed]

ExecIdle ==
    /\ mode = "async" /\ pages = <<>> /\ raisesOn = {} /\ max_workers = 1
    /\ semaphore = 1 /\ epc = [k \in Coroutines |-> "none"]
    /\ completed = <<>> /\ results = <<>> /\ stats = ZeroStats
    /\ returned = FALSE /\ raised = FALSE
    /\ progress_callback = FALSE /\ progress = <<>> /\ chunk_size = 1

\* the state in which the tasks have been created (line 177) or submitted
\* (line 248); the limiter holds what earlier use has left in the bucket.
\* Time is counted in ticks, which makes the rate a unit: it is 1 here.
ExecInit ==
    /\ mode \in Modes
    /\ pages \in PageLists
    /\ raisesOn \in SUBSET Range(pages)
    /\ max_workers \in 1..MaxWorkers
    /\ semaphore = max_workers
    /\ epc = [k \in Coroutines |->
                IF k > Len(pages) THEN "none"
                ELSE IF mode = "async" THEN "semaphore" ELSE "queued"]
    /\ completed = <<>> /\ results = <<>> /\ stats = ZeroStats
    /\ returned = FALSE /\ raised = FALSE
    /\ progress_callback = FALSE /\ progress = <<>> /\ chunk_size = 1
    /\ rate = 1
    /\ burst \in 1..MaxBurst
    /\ tokens \in 0..burst * OneToken
    /\ last_update = 0 /\ rlock = NoCoroutine /\ now = 0
    /\ rpc = [c \in Coroutines |-> "idle"]
    /\ wake = [c \in Coroutines |-> 0]
    /\ grants = <<>> /\ calls = 0

\* lines 146-148: the task enters the semaphore and calls acquire()
AsyncSemaphore(k) ==
    /\ epc[k] = "semaphore" /\ SemaphoreFree
    /\ semaphore' = semaphore - 1
    /\ epc' = [epc EXCEPT ![k] = "acquire"]
    /\ rpc' = [rpc EXCEPT ![k] = "lock"]
    /\ calls' = calls + 1
    /\ UNCHANGED <<rate, burst, tokens, last_update, rlock, now, wake, grants,
                   mode, pages, raisesOn, max_workers, completed, results,
                   stats, returned, raised, progressVars,
                   chunk_size, outsideExec>>

\* lines 150-154: acquire() has returned; processor_func is called
AsyncInvoke(k) ==
    /\ epc[k] = "acquire" /\ rpc[k] = "idle"
    /\ epc' = [epc EXCEPT ![k] = "run"]
    /\ UNCHANGED <<rateVars, mode, pages, raisesOn, max_workers, semaphore,
                   completed, results, stats, returned, raised, progressVars,
                   chunk_size, outsideExec>>

\* lines 213-223: a free pool thread takes the next submitted page, reads
\* get_wait_time() and either sleeps or calls processor_func
ThreadStart(k) ==
    /\ epc[k] = "queued"
    /\ \A j \in DOMAIN pages : epc[j] = "queued" => k <= j
    /\ Cardinality(BusyWorkers) < max_workers
    /\ LET wait_time == GetWaitTime(tokens)
       IN  IF wait_time > 0
           THEN /\ epc' = [epc EXCEPT ![k] = "sleep"]
                /\ wake' = [wake EXCEPT ![k] = now + wait_time]
           ELSE /\ epc' = [epc EXCEPT ![k] = "run"]
                /\ UNCHANGED wake
    /\ UNCHANGED <<rate, burst, tokens, last_update, rlock, now, rpc, grants,
                   calls, mode, pages, raisesOn, max_workers, semaphore,
                   completed, results, stats, returned, raised, progressVars,
                   chunk_size, outsideExec>>

\* lines 221-223: time.sleep(wait_time) is over; processor_func is called
ThreadWake(k) ==
    /\ epc[k] = "sleep" /\ now >= wake[k]
    /\ epc' = [epc EXCEPT ![k] = "run"]
    /\ UNCHANGED <<rateVars, mode, pages, raisesOn, max_workers, semaphore,
                   completed, results, stats, returned, raised, progressVars,
                   chunk_size, outsideExec>>

\* lines 153-174 and 223-243: processor_func returns or raises and the task
\* ends (leaving the semaphore in the async variant)
TaskComplete(k) ==
    /\ epc[k] = "run"
    /\ epc' = [epc EXCEPT ![k] = "done"]
    /\ completed' = Append(completed, ProcessSinglePage(pages[k]))
    /\ semaphore' = IF mode = "async" THEN semaphore + 1 ELSE semaphore
    /\ UNCHANGED <<rateVars, mode, pages, raisesOn, max_workers, results,
                   stats, returned, raised, progressVars,
                   chunk_size, outsideExec>>

\* a callback that is told the count before the finished task is counted
ProgressArgsBeforeCounting(done, total) == <<done - 1, total>>
\* lines 187 and 258: progress_callback(completed, len(pages))
ProgressArgs(done, total) == <<done, total>>

\* lines 180-187 and 251-258: as_completed yields the next finished task;
\* its result is appended and the progress callback, if there is one, is
\* called; or the task's exception leaves the call
ExecCollect ==
    /\ ~returned /\ ~raised /\ completed # <<>>
    /\ completed' = Tail(completed)
    /\ IF Head(completed).exception
       THEN raised' = TRUE /\ UNCHANGED <<results, progress>>
       ELSE /\ results' = Append(results, Head(completed).value)
            /\ progress' = IF progress_callback
                           THEN Append(progress,
                                       ProgressArgs(Len(results'), Len(pages)))
                           ELSE progress
            /\ UNCHANGED raised
    /\ UNCHANGED <<rateVars, mode, pages, raisesOn, max_workers, semaphore,
                   epc, stats, returned, progress_callback, chunk_size,
                   outsideExec>>

\* lines 189-194 and 261-266: every task has been yielded; _update_stats;
\* return results
ExecReturn ==
    /\ ~returned /\ ~raised /\ Len(results) = Len(pages)
    /\ stats' = UpdateStats(stats, results)
    /\ returned' = TRUE
    /\ UNCHANGED <<rateVars, mode, pages, raisesOn, max_workers, semaphore,
                   epc, completed, results, raised, progressVars,
                   chunk_size, outsideExec>>

\* the sleeps (asyncio.sleep in acquire, time.sleep in a pool thread) that
\* are not over yet
Sleeping ==
    {k \in DOMAIN pages : (rpc[k] = "sleep" \/ epc[k] = "sleep") /\ wake[k] > now}

\* time passes; the call reads the clock only to end a sleep, and its other
\* steps are taken as soon as they are ready
ExecTick ==
    /\ ~returned /\ ~raised
    /\ Sleeping # {}
    /\ now' = now + 1
    /\ UNCHANGED <<rate, burst, tokens, last_update, rlock, rpc, wake, grants,
                   calls, execVars, outsideExec>>

ExecNext ==
    \/ \E k \in Coroutines : AsyncSemaphore(k)
    \/ \E k \in Coroutines : RateEnter(k)
    \/ \E k \in Coroutines : RateWake(k)
    \/ \E k \in Coroutines : AsyncInvoke(k)
    \/ \E k \in Coroutines : ThreadStart(k)
    \/ \E k \in Coroutines : ThreadWake(k)
    \/ \E k \in Coroutines : TaskComplete(k)
    \/ ExecCollect
    \/ ExecReturn
    \/ ExecTick

\* the event loop and the operating system keep running whatever is ready,
\* and the clock keeps advancing
ExecFairness == WF_vars(ExecNext)

(***************************************************************************)
(* C8: process_pages_async and process_pages_threaded return, without      *)
(* raising, exactly one ProcessingResult per submitted page: success =     *)
(* false with the error text for exactly the pages the processor raised    *)
(* on, success = true with the processor's return value for the others.    *)
(***************************************************************************)
ResultsOf(page) == {i \in DOMAIN results : results[i].page_id = page}

ExpectedResult(page) ==
    IF page \in raisesOn
    THEN ProcessingResult(page, FALSE, None, Some(ExceptionText(page)))
    ELSE ProcessingResult(page, TRUE, Some(ProcessorValue(page)), None)

C8_OneResultPerPageFailuresIsolated ==
    /\ ~raised
    /\ returned =>
        /\ Len(results) = Len(pages)
        /\ \A k \in DOMAIN pages : Cardinality(ResultsOf(pages[k])) = 1
        /\ \A i \in DOMAIN results :
              results[i] = ExpectedResult(results[i].page_id)

C8_Witness ==
    /\ returned /\ Len(pages) = MaxPages
    /\ raisesOn # {} /\ raisesOn # Range(pages)
    /\ \E i \in DOMAIN results : i > 1 /\ results[i].page_id < results[1].page_id

(***************************************************************************)
(* C9: at no instant are more than max_workers processor invocations in    *)
(* progress, and every submitted page is eventually processed.             *)
(***************************************************************************)
AllProcessed == \A k \in DOMAIN pages : epc[k] = "done"

C9_AtMostMaxWorkersAndAllProcessed ==
    /\ [](Cardinality(InProgress) <= max_workers)
    /\ <>AllProcessed

C9_Witness ==
    /\ Len(pages) > max_workers
    /\ Cardinality(InProgress) = max_workers
    /\ \E k \in DOMAIN pages : epc[k] \in {"semaphore", "queued"}

(***************************************************************************)
(* C21 as stated: resolve_filename_conflicts returns as many names as it   *)
(* was given, in the same order; the first document that carries a         *)
(* filename keeps it, and each later document with the same filename is    *)
(* renamed stem_n.ext with the smallest n >= 1 whose name is not yet used  *)
(* in the batch.                                                           *)
(***************************************************************************)
Numbered(f, n) == PathStem(f) \o <<"_">> \o IntToStr(n) \o PathSuffix(f)

UsedBefore(i) == {resolved[j] : j \in 1..(i - 1)}

\* resolved[i] is the numbered name with the smallest free number
SmallestFreeNumber(i) ==
    \E n \in 1..Len(batch) :
        /\ resolved[i] = Numbered(batch[i], n)
        /\ resolved[i] \notin UsedBefore(i)
        /\ \A m \in 1..(n - 1) : Numbered(batch[i], m) \in UsedBefore(i)

C21_FirstKeepsNameLaterAreNumbered ==
    nop = "resolve" =>
        /\ Len(resolved) = Len(batch)
        /\ \A i \in DOMAIN batch :
             IF \A j \in 1..(i - 1) : batch[j] # batch[i]
             THEN resolved[i] = batch[i]
             ELSE SmallestFreeNumber(i)

(***************************************************************************)
(* C21 as the code has it: a document keeps its filename exactly when no   *)
(* earlier document of the batch has been given that name (its own, or by  *)
(* renaming); otherwise it is renamed stem_n.ext with the smallest n >= 1  *)
(* whose name is not yet used.  The result has the length and order of the *)
(* input, its names are pairwise different, and each keeps its extension.  *)
(***************************************************************************)
C21_UnusedNameIsKeptUsedNameIsNumbered ==
    nop = "resolve" =>
        /\ Len(resolved) = Len(batch)
        /\ \A i \in DOMAIN batch :
             /\ IF batch[i] \notin UsedBefore(i)
                THEN resolved[i] = batch[i]
                ELSE SmallestFreeNumber(i)
             /\ PathSuffix(resolved[i]) = PathSuffix(batch[i])
        /\ \A i, j \in DOMAIN resolved : resolved[i] = resolved[j] => i = j

C21_Witness ==
    /\ nop = "resolve"
    /\ batch = <<NameUpper, NameUpper, NameNumbered>>
    /\ resolved[2] = NameNumbered
    /\ resolved[3] # NameNumbered

(***************************************************************************)
(* SpecProgress: process_pages_async called with or without a progress     *)
(* callback.                                                               *)
(***************************************************************************)
ProgressInit ==
    /\ mode = "async"
    /\ pages \in PageLists
    /\ raisesOn \in SUBSET Range(pages)
    /\ max_workers \in 1..MaxWorkers
    /\ semaphore = max_workers
    /\ epc = [k \in Coroutines |-> IF k > Len(pages) THEN "none" ELSE "semaphore"]
    /\ completed = <<>> /\ results = <<>> /\ stats = ZeroStats
    /\ returned = FALSE /\ raised = FALSE
    /\ progress_callback \in BOOLEAN /\ progress = <<>> /\ chunk_size = 1
    /\ rate = 1
    /\ burst \in 1..MaxBurst
    /\ tokens \in 0..burst * OneToken
    /\ last_update = 0 /\ rlock = NoCoroutine /\ now = 0
    /\ rpc = [c \in Coroutines |-> "idle"]
    /\ wake = [c \in Coroutines |-> 0]
    /\ grants = <<>> /\ calls = 0

ProgressNext ==
    \/ \E k \in Coroutines : AsyncSemaphore(k)
    \/ \E k \in Coroutines : RateEnter(k)
    \/ \E k \in Coroutines : RateWake(k)
    \/ \E k \in Coroutines : AsyncInvoke(k)
    \/ \E k \in Coroutines : TaskComplete(k)
    \/ ExecCollect
    \/ ExecReturn
    \/ ExecTick

(***************************************************************************)
(* C19: process_pages_async over N pages with a progress callback calls    *)
(* the callback N times; the k-th call is (k, N) and is made when the k-th *)
(* task to finish has been collected, in the order in which the tasks      *)
(* finish; the last call is (N, N).                                        *)
(***************************************************************************)
Finished == {k \in DOMAIN pages : epc[k] = "done"}

C19_ProgressCallbackPerFinishedTask ==
    /\ [](progress_callback =>
            /\ progress = [k \in 1..Len(results) |-> <<k, Len(pages)>>]
            /\ Len(progress) <= Cardinality(Finished)
            /\ returned =>
                  /\ Len(progress) = Len(pages)
                  /\ pages # <<>> => progress[Len(progress)]
                                        = <<Len(pages), Len(pages)>>)
    /\ [][progress' # progress =>
            /\ completed # <<>>
            /\ results' = Append(results, Head(completed).value)
            /\ progress' = Append(progress, <<Len(results'), Len(pages)>>)]_vars

C19_Witness ==
    /\ progress_callback /\ returned
    /\ Len(pages) = MaxPages
    /\ Len(progress) = MaxPages
    /\ results[1].page_id # pages[1]

(***************************************************************************)
(* SpecBatch: ConcurrentProcessor.process_pages_batch: the pages are cut   *)
(* into chunks of batch_size pages and processor_func is called once per   *)
(* chunk, in the calling thread.  It raises on a chunk that holds a page   *)
(* of raisesOn, and otherwise returns a list of some length.               *)
(***************************************************************************)
MaxChunked == 3     \* pages handed to process_pages_batch

BatchInit ==
    /\ mode = "batch"
    /\ pages \in {[k \in 1..n |-> k] : n \in 0..MaxChunked}
    /\ raisesOn \in SUBSET Range(pages)
    /\ chunk_size \in 1..MaxBatch
    /\ max_workers = 1 /\ semaphore = 1
    /\ epc = [k \in Coroutines |-> "none"]
    /\ completed = <<>> /\ results = <<>> /\ stats = ZeroStats
    /\ returned = FALSE /\ raised = FALSE
    /\ progress_callback \in BOOLEAN /\ progress = <<>>
    /\ rate = 1
    /\ burst \in 1..MaxBurst
    /\ tokens \in 0..burst * OneToken
    /\ last_update = 0 /\ rlock = NoCoroutine /\ now = 0
    /\ rpc = [c \in Coroutines |-> "idle"]
    /\ wake = [c \in Coroutines |-> 0]
    /\ grants = <<>> /\ calls = 0

\* line 289: batches[b] for the chunk that starts after `done` pages
NextChunk(done) ==
    SubSeq(pages, done + 1, Min(done + chunk_size, Len(pages)))

\* the error of processor_func on a chunk: that of its first failing page
ChunkError(chunk) ==
    LET failing == {i \in DOMAIN chunk : ProcessorRaises(chunk[i])}
    IN  ExceptionText(chunk[CHOOSE i \in failing : \A j \in failing : i <= j])

\* lines 304-314: one successful result per page of the chunk, with
\* batch_results[i] or None when the processor has returned fewer values
ChunkSuccess(chunk, returnedValues) ==
    [i \in 1..Len(chunk) |->
        ProcessingResult(chunk[i], TRUE,
                         IF i <= returnedValues
                         THEN Some(ProcessorValue(chunk[i])) ELSE None,
                         None)]

\* a handler that records the failure for the first page of the chunk only
ChunkFailureFirstPageOnly(chunk, error) ==
    <<ProcessingResult(chunk[1], FALSE, None, Some(error))>>

\* lines 316-329: except Exception: one failed result per page of the chunk
ChunkFailure(chunk, error) ==
    [i \in 1..Len(chunk) |-> ProcessingResult(chunk[i], FALSE, None, Some(error))]

\* lines 291-335, one turn of the loop: get_wait_time() and time.sleep,
\* processor_func(batch), the results of the chunk, the progress callback
BatchChunk ==
    /\ mode = "batch" /\ ~returned /\ Len(results) < Len(pages)
    /\ LET chunk == NextChunk(Len(results))
       IN  /\ now' = now + GetWaitTime(tokens)
           /\ \E returnedValues \in 0..Len(chunk) :
                results' = results \o
                    (IF \E i \in DOMAIN chunk : ProcessorRaises(chunk[i])
                     THEN ChunkFailure(chunk, ChunkError(chunk))
                     ELSE ChunkSuccess(chunk, returnedValues))
           /\ progress' = IF progress_callback
                          THEN Append(progress,
                                      <<Len(results) + Len(chunk), Len(pages)>>)
                          ELSE progress
    /\ UNCHANGED <<rate, burst, tokens, last_update, rlock, rpc, wake, grants,
                   calls, mode, pages, raisesOn, max_workers, semaphore, epc,
                   completed, stats, returned, raised, progress_callback,
                   chunk_size, outsideExec>>

\* lines 337-342: _update_stats; return results
BatchReturn ==
    /\ mode = "batch" /\ ~returned /\ Len(results) >= Len(pages)
    /\ stats' = UpdateStats(stats, results)
    /\ returned' = TRUE
    /\ UNCHANGED <<rateVars, mode, pages, raisesOn, max_workers, semaphore,
                   epc, completed, results, raised, progressVars, chunk_size,
                   outsideExec>>

BatchNext ==
    \/ BatchChunk
    \/ BatchReturn

(***************************************************************************)
(* C23: process_pages_batch returns one result per page, in the order of   *)
(* the pages; when the processor raises for a chunk every page of that     *)
(* chunk has a failed result with the same error, and the pages of the     *)
(* other chunks have their successful results.                             *)
(***************************************************************************)
ChunkNumber(i) == (i - 1) \div chunk_size

ChunkRaises(c) ==
    \E i \in DOMAIN pages : ChunkNumber(i) = c /\ ProcessorRaises(pages[i])

C23_FailedChunkFailsAloneOneResultPerPage ==
    /\ Len(results) <= Len(pages)
    /\ returned => Len(results) = Len(pages)
    /\ \A i \in DOMAIN results :
         /\ results[i].page_id = pages[i]
         /\ results[i].success = ~ChunkRaises(ChunkNumber(i))
         /\ ~results[i].success =>
               /\ results[i].error # None
               /\ \A j \in DOMAIN results :
                    ChunkNumber(j) = ChunkNumber(i)
                        => results[j].error = results[i].error

C23_Witness ==
    /\ returned /\ chunk_size > 1 /\ Len(pages) > chunk_size
    /\ ~results[1].success /\ ~results[2].success
    /\ results[Len(results)].success
    /\ Cardinality(raisesOn) = 1

(***************************************************************************)
(* SpecSync: SyncOrchestrator.sync_all_pages, run twice in a row   *)
(* on the same database.  The files are written by                         *)
(* FileManager.safe_batch_write (SafeBatchWriteResult above).              *)
(***************************************************************************)
\* a run of sync_all_pages and the run that follows it
Runs == {1, 2}

\* how get_page_content and convert_page_to_markdown end for a page
Outcomes == {"ok", "fetch_fails", "convert_fails"}

SyncNames == {NameUpper, NameLower}

Databases ==
    UNION {[1..n -> [filename : SyncNames, outcome : Outcomes]] :
             n \in 0..MaxItems}

\* convert_page_to_markdown, except branch: f"error_{page.id}.md"
FallbackFilename(id) ==
    <<"e", "r", "r", "o", "r", "_">> \o IntToStr(id) \o <<".", "m", "d">>

\* SyncResult.__init__
NewSyncResult ==
    [end_time |-> None, total_pages |-> 0, successful_pages |-> 0,
     failed_pages |-> 0, skipped_pages |-> 0, conversion_results |-> <<>>,
     errors |-> <<>>, warnings |-> <<>>]

AddError(r, error) == [r EXCEPT !.errors = Append(@, error)]
AddWarning(r, warning) == [r EXCEPT !.warnings = Append(@, warning)]
Complete(r) == [r EXCEPT !.end_time = Some("now")]

\* what a return statement or an escaping exception leaves behind
Leave(r, exit, esc) == [result |-> r, exit |-> exit, escaped |-> esc]

\* a sync_all_pages without its `except Exception`: the exception escapes
SyncExceptMissing(r) == Leave(r, "exception", TRUE)

\* sync_all_pages, lines 405-409: the except clause
SyncExcept(r) == Leave(Complete(AddError(r, "sync")), "exception", FALSE)

\* lines 367-368: batches = [pages[i:i + batch_size] ...]; the b-th batch
BatchCount == (Len(upstream) + batch_size - 1) \div batch_size
BatchOf(b) ==
    SubSeq([i \in 1..Len(upstream) |-> i], (b - 1) * batch_size + 1,
           IF b * batch_size < Len(upstream) THEN b * batch_size
           ELSE Len(upstream))

\* _process_page_batch: the loop over the pages of one batch
RECURSIVE ProcessPageBatch(_, _, _)
ProcessPageBatch(ids, i, r) ==
    IF i > Len(ids) THEN r
    ELSE LET page == upstream[ids[i]]
         IN  ProcessPageBatch(ids, i + 1,
               CASE page.outcome = "ok" ->
                      [r EXCEPT !.conversion_results = Append(@, page.filename)]
                 [] page.outcome = "convert_fails" ->
                      AddWarning([r EXCEPT !.conversion_results =
                                     Append(@, FallbackFilename(ids[i]))],
                                 "conversion")
                 [] OTHER -> AddError(r, "page"))

ChangedIdle ==
    /\ pages_data = <<>> /\ gpc = "idle" /\ changed_pages = <<>>
    /\ seen = [id \in PageIds |-> NoEntry] /\ applied = 0

RetryIdle ==
    /\ script = <<>> /\ attempt = 0 /\ rtpc = "idle" /\ attempts = <<>>
    /\ delays = <<>> /\ rerror = None /\ surfaced = None

OpsIdle == op = "none" /\ handledRun = 0

SyncIdle ==
    /\ OpsIdle
    /\ upstream = <<>> /\ overwrite_existing = TRUE /\ batch_size = 1
    /\ vault = {} /\ diskFaults = {} /\ srun = 1 /\ spc = "returned"
    /\ sbatch = 1
    /\ sresult = NewSyncResult /\ sexit = "none" /\ fileWrites = 0
    /\ writeFailures = 0 /\ write_results = EmptyDict /\ synced = FALSE
    /\ asked = {} /\ escaped = FALSE

SyncInit ==
    /\ upstream \in Databases
    /\ overwrite_existing \in BOOLEAN
    /\ batch_size \in 1..MaxBatch
    /\ vault \in {{}, {NameUpper}}
    /\ diskFaults = {}
    /\ srun = 1 /\ spc = "start" /\ sbatch = 1
    /\ sresult = NewSyncResult /\ sexit = "none"
    /\ fileWrites = 0 /\ writeFailures = 0 /\ write_results = EmptyDict
    /\ synced = FALSE /\ asked = {} /\ escaped = FALSE

\* the call ends: by a return statement, or by an exception
SyncLeave(l) ==
    /\ sresult' = l.result
    /\ sexit' = l.exit
    /\ escaped' = l.escaped
    /\ spc' = IF l.escaped THEN "escaped" ELSE "returned"

\* validate_sync_prerequisites reports a vault issue as an error when its
\* text names a missing path or a missing permission, as a warning otherwise
VaultIssues == {"none", "critical", "minor"}

\* get_sync_preview: the filenames of the pages it has fetched and the
\* conflicts check_file_conflicts finds among them; an API error is caught
\* inside and gives an empty preview
PotentialConflicts(api_error) ==
    IF api_error THEN {}
    ELSE DOMAIN CheckFileConflicts([i \in DOMAIN upstream |-> upstream[i].filename],
                                   vault)

\* validate_sync_prerequisites, line 318: more conflicts than this are a warning
ManyConflicts == 5

\* validate_sync_prerequisites: every check is made, whatever the earlier
\* ones have found
ValidateSyncPrerequisites(config_valid, notion_accessible, vault_issue, api_error) ==
    LET config_errors == IF config_valid THEN <<>> ELSE <<"config">>
        notion_errors == IF notion_accessible THEN <<>> ELSE <<"connection">>
        vault_errors == IF vault_issue = "critical" THEN <<"vault">> ELSE <<>>
        vault_warnings == IF vault_issue = "minor" THEN <<"vault">> ELSE <<>>
        conflict_warnings ==
            IF Cardinality(PotentialConflicts(api_error)) > ManyConflicts
            THEN <<"conflicts">> ELSE <<>>
    IN  [is_valid |-> config_valid /\ notion_accessible
                      /\ vault_issue # "critical",
         errors |-> config_errors \o notion_errors \o vault_errors,
         warnings |-> vault_warnings \o conflict_warnings,
         asked |-> {"test_connection", "get_database_pages"}]

RECURSIVE AddAll(_, _, _, _)
AddAll(Add(_, _), r, texts, i) ==
    IF i > Len(texts) THEN r ELSE AddAll(Add, Add(r, texts[i]), texts, i + 1)

\* lines 343-358: result = SyncResult(); validate_sync_prerequisites, which
\* reports in its return value and does not raise
SyncValidate ==
    /\ spc = "start"
    /\ \E config_valid \in BOOLEAN, notion_accessible \in BOOLEAN,
          vault_issue \in VaultIssues, api_error \in BOOLEAN :
         \E validation \in {ValidateSyncPrerequisites(config_valid,
                                notion_accessible, vault_issue, api_error)} :
           /\ asked' = validation.asked
           /\ IF validation.is_valid
              THEN /\ sresult' = AddAll(AddWarning, NewSyncResult,
                                        validation.warnings, 1)
                   /\ spc' = "fetch"
                   /\ UNCHANGED <<sexit, escaped>>
              ELSE SyncLeave(Leave(Complete(AddAll(AddError, NewSyncResult,
                                                   validation.errors, 1)),
                                   "invalid", FALSE))
    /\ UNCHANGED <<upstream, overwrite_existing, batch_size, vault, diskFaults, srun,
                   sbatch, fileWrites, writeFailures, write_results, synced,
                   outsideSync>>

\* lines 360-367: get_database_pages, which may raise; no page ends the run
SyncFetch ==
    /\ spc = "fetch"
    /\ \E api_error \in BOOLEAN :
         IF api_error THEN SyncLeave(SyncExcept(sresult))
         ELSE LET r == [sresult EXCEPT !.total_pages = Len(upstream)]
              IN  IF Len(upstream) = 0
                  THEN SyncLeave(Leave(Complete(AddWarning(r, "no pages")),
                                       "empty", FALSE))
                  ELSE /\ sresult' = r /\ spc' = "process"
                       /\ UNCHANGED <<sexit, escaped>>
    /\ sbatch' = 1
    /\ asked' = asked \cup {"get_database_pages"}
    /\ UNCHANGED <<upstream, overwrite_existing, batch_size, vault, diskFaults, srun,
                   fileWrites, writeFailures, write_results, synced,
                   outsideSync>>

\* lines 371-376: one batch goes through _process_page_batch; after the last
\* one the disk's behaviour during the coming write is settled
SyncProcessBatch ==
    /\ spc = "process"
    /\ sresult' = ProcessPageBatch(BatchOf(sbatch), 1, sresult)
    /\ sbatch' = sbatch + 1
    /\ asked' = asked \cup {"get_page_content"}
    /\ IF sbatch = BatchCount
       THEN /\ spc' = "write"
            /\ diskFaults' \in SUBSET (1..Len(sresult'.conversion_results))
       ELSE /\ spc' = "process"
            /\ UNCHANGED diskFaults
    /\ UNCHANGED <<upstream, overwrite_existing, batch_size, vault, srun,
                   sexit, fileWrites, writeFailures, write_results, synced, escaped,
                   outsideSync>>

\* lines 378-403: safe_batch_write of the conversion results, the counts
\* taken from its report, complete() and return
SyncWrite ==
    /\ spc = "write"
    /\ IF sresult.conversion_results = <<>>
       THEN /\ SyncLeave(Leave(Complete(sresult), "written", FALSE))
            /\ UNCHANGED <<vault, fileWrites, writeFailures, write_results>>
       ELSE \E w \in {SafeBatchWriteResult(sresult.conversion_results,
                                           overwrite_existing, TRUE,
                                           diskFaults, vault)} :
              LET counted == [sresult EXCEPT
                                !.conversion_results = w.names,
                                !.successful_pages = w.successful_writes,
                                !.failed_pages = w.failed_writes]
                  r == IF w.conflicts_detected > 0
                       THEN AddWarning(counted, "conflicts") ELSE counted
              IN  /\ SyncLeave(Leave(Complete(r), "written", FALSE))
                  /\ vault' = w.disk
                  /\ fileWrites' = w.successful_writes
                  /\ writeFailures' = w.failed_writes
                  /\ write_results' = w.write_results
    /\ UNCHANGED <<upstream, overwrite_existing, batch_size, diskFaults, srun,
                   sbatch, synced, asked, outsideSync>>

\* sync_all_pages is called again; nothing has changed upstream
SyncAgain ==
    /\ spc = "returned" /\ srun + 1 \in Runs
    /\ srun' = srun + 1
    /\ synced' = (\/ synced
                  \/ /\ sexit = "written"
                     /\ sresult.successful_pages = Len(upstream)
                     /\ sresult.errors = <<>>)
    /\ spc' = "start" /\ sbatch' = 1
    /\ sresult' = NewSyncResult /\ sexit' = "none"
    /\ fileWrites' = 0 /\ writeFailures' = 0 /\ diskFaults' = {}
    /\ write_results' = EmptyDict
    /\ asked' = {}
    /\ UNCHANGED <<upstream, overwrite_existing, batch_size, vault, escaped,
                   outsideSync>>

SyncNext ==
    \/ SyncValidate
    \/ SyncFetch
    \/ SyncProcessBatch
    \/ SyncWrite
    \/ SyncAgain

\* a call that has started keeps running.  The validation step is enabled
\* exactly when spc = "start" and the write step exactly when spc = "write",
\* and each always leaves its position, so their weak fairness is stated
\* as: the call stays at neither position for ever
SyncFairness ==
    /\ WF_vars((SyncFetch \/ SyncProcessBatch \/ SyncAgain)
               /\ UNCHANGED traceVars)
    /\ []<>(spc # "start")
    /\ []<>(spc # "write")

(***************************************************************************)
(* C4: a run of sync_all_pages that follows a run which has written every  *)
(* page, with nothing changed upstream, classifies every page as unchanged *)
(* (skipped) and writes no file.                                           *)
(***************************************************************************)
C4_SecondRunWritesNothing ==
    (srun > 1 /\ synced /\ spc = "returned" /\ sexit = "written") =>
        /\ fileWrites = 0
        /\ sresult.skipped_pages = sresult.total_pages

(***************************************************************************)
(* C5: a run over N pages of which K fail in fetch or conversion, and      *)
(* whose writes all succeed, returns total = N, successful = N - K,        *)
(* failed = K and at least K errors.                                       *)
(***************************************************************************)
FailedItems == {i \in DOMAIN upstream : upstream[i].outcome # "ok"}

C5_CountsOfPartialFailure ==
    (spc = "returned" /\ sexit = "written" /\ writeFailures = 0) =>
        /\ sresult.total_pages = Len(upstream)
        /\ sresult.successful_pages = Len(upstream) - Cardinality(FailedItems)
        /\ sresult.failed_pages = Cardinality(FailedItems)
        /\ Len(sresult.errors) >= Cardinality(FailedItems)

(***************************************************************************)
(* C10: every call of sync_all_pages ends by returning a SyncResult on     *)
(* which complete() has been called (end_time set), whatever validation,   *)
(* fetch, conversion and writing do; no exception leaves the call.         *)
(***************************************************************************)
C10_AlwaysReturnsCompletedResult ==
    /\ [](~escaped)
    /\ [](spc = "returned" /\ sexit # "none" => sresult.end_time # None)
    /\ \A run \in Runs : <>(srun = run /\ spc = "returned")

(***************************************************************************)
(* C11: a run whose pre-flight validation fails never asks the NotionClient *)
(* for the pages of the database (get_database_pages) or for the content   *)
(* of a page (get_page_content), converts and writes nothing, and returns  *)
(* total = 0 with the validation errors recorded.                          *)
(***************************************************************************)
C11_FailedValidationFetchesNothing ==
    (spc = "returned" /\ sexit = "invalid") =>
        /\ "get_database_pages" \notin asked
        /\ "get_page_content" \notin asked
        /\ sresult.conversion_results = <<>>
        /\ fileWrites = 0
        /\ sresult.total_pages = 0
        /\ sresult.errors # <<>>

(***************************************************************************)
(* C12: when a run has completed, the ChangeCache (CacheManager.cache)     *)
(* holds an entry for every page whose document the run has written.       *)
(* (It should carry the page's revision token and the hash of the written  *)
(* content; here already the entry itself is asked for.)                   *)
(***************************************************************************)
\* the position in conversion_results of the result of page i
ResultIndex(i) ==
    Cardinality({k \in 1..i : upstream[k].outcome # "fetch_fails"})

\* the pages whose document the run has written
WrittenItems ==
    {i \in DOMAIN upstream :
        /\ upstream[i].outcome # "fetch_fails"
        /\ ResultIndex(i) <= Len(sresult.conversion_results)
        /\ LET name == sresult.conversion_results[ResultIndex(i)]
           IN  name \in DOMAIN write_results /\ write_results[name]}

\* the cache keys of the pages of the database
PageKeys == <<"pg1", "pg2">>

CacheEntryOf(i) ==
    IF i <= Len(PageKeys) /\ PageKeys[i] \in DOMAIN cache
    THEN cache[PageKeys[i]] ELSE NoEntry

C12_WrittenItemsAreCached ==
    (spc = "returned" /\ sexit = "written") =>
        \A i \in WrittenItems : CacheEntryOf(i).present

(***************************************************************************)
(* C13: every document whose write fails is recorded in SyncResult.errors: *)
(* there are at least as many errors as failed writes, and the sync        *)
(* command exits non-zero whenever a write has failed.                     *)
(***************************************************************************)
\* command_sync, main.py line 266
ExitStatus(r) == IF Len(r.errors) = 0 THEN 0 ELSE 1

C13_FailedWritesAreErrors ==
    (spc = "returned" /\ sexit = "written") =>
        /\ Len(sresult.errors) >= writeFailures
        /\ writeFailures > 0 => ExitStatus(sresult) # 0

C10_Witness ==
    /\ spc = "returned" /\ sexit = "written"
    /\ sresult.end_time # None
    /\ FailedItems # {} /\ writeFailures > 0
    /\ Len(sresult.errors) > 0

(***************************************************************************)
(* SpecOps: one of the SyncOrchestrator's operations is called:            *)
(* sync_all_pages, sync_pages_by_filter, sync_pages_modified_after or      *)
(* recover_from_failed_sync; handle_sync_interruption may then be called   *)
(* on the result it has returned.                                          *)
(***************************************************************************)
Operations ==
    {"sync_pages_by_filter", "sync_pages_modified_after",
     "recover_from_failed_sync"}

\* the orchestrator as constructed, before the call of one operation; the
\* call gets the last number that Runs admits
OpsInit ==
    /\ upstream \in Databases
    /\ overwrite_existing \in BOOLEAN
    /\ batch_size \in 1..MaxBatch
    /\ vault \in {{}, {NameUpper}}
    /\ diskFaults = {}
    /\ srun = 1 /\ spc = "returned" /\ sbatch = 1
    /\ sresult = NewSyncResult /\ sexit = "none"
    /\ fileWrites = 0 /\ writeFailures = 0 /\ write_results = EmptyDict
    /\ synced = FALSE /\ asked = {} /\ escaped = FALSE
    /\ op = "none" /\ handledRun = 0

\* an operation returns its SyncResult: to the caller, or to
\* recover_from_failed_sync (line 623) when that is the operation called
OpsLeave(l) ==
    /\ sresult' = l.result
    /\ sexit' = l.exit
    /\ escaped' = l.escaped
    /\ spc' = IF op = "recover_from_failed_sync" THEN "r_check"
              ELSE "returned"

\* the caller calls one of the operations; sync_pages_by_filter and
\* recover_from_failed_sync start with result = SyncResult()
OpsCall(o) ==
    /\ spc = "returned" /\ srun + 1 \in Runs
    /\ srun' = srun + 1
    /\ op' = o
    /\ spc' = IF o = "sync_pages_by_filter" THEN "f_fetch" ELSE "m_fetch"
    /\ sresult' = NewSyncResult /\ sexit' = "none"
    /\ fileWrites' = 0 /\ writeFailures' = 0 /\ diskFaults' = {}
    /\ write_results' = EmptyDict /\ asked' = {}
    /\ UNCHANGED <<upstream, overwrite_existing, batch_size, vault, sbatch,
                   synced, escaped, handledRun, outsideOps>>

\* sync_pages_modified_after, lines 521-547: get_pages_modified_after raises,
\* finds nothing, or finds pages and the call goes on as a filter sync
OpsModifiedFetch ==
    /\ spc = "m_fetch"
    /\ \E found \in {"raises", "nothing"}
                   \cup (IF upstream = <<>> THEN {} ELSE {"pages"}) :
         CASE found = "raises" ->
                OpsLeave(Leave(Complete(AddError(NewSyncResult, "modified")),
                               "exception", FALSE))
           [] found = "nothing" ->
                OpsLeave(Leave(Complete(AddWarning(NewSyncResult, "no pages")),
                               "empty", FALSE))
           [] OTHER ->
                /\ sresult' = NewSyncResult /\ spc' = "f_fetch"
                /\ UNCHANGED <<sexit, escaped>>
    /\ asked' = asked \cup {"get_database_pages"}
    /\ UNCHANGED <<upstream, overwrite_existing, batch_size, vault, diskFaults,
                   srun, sbatch, fileWrites, writeFailures, write_results,
                   synced, opsVars, outsideOps>>

\* sync_pages_by_filter, lines 471-481 and 505-509: get_database_pages,
\* which may raise; no page ends the call
OpsFilterFetch ==
    /\ spc = "f_fetch"
    /\ \E api_error \in BOOLEAN :
         IF api_error
         THEN OpsLeave(Leave(Complete(AddError(sresult, "filter")),
                             "exception", FALSE))
         ELSE LET r == [sresult EXCEPT !.total_pages = Len(upstream)]
              IN  IF Len(upstream) = 0
                  THEN OpsLeave(Leave(Complete(AddWarning(r, "no pages")),
                                      "empty", FALSE))
                  ELSE /\ sresult' = r /\ spc' = "f_process"
                       /\ UNCHANGED <<sexit, escaped>>
    /\ asked' = asked \cup {"get_database_pages"}
    /\ UNCHANGED <<upstream, overwrite_existing, batch_size, vault, diskFaults,
                   srun, sbatch, fileWrites, writeFailures, write_results,
                   synced, opsVars, outsideOps>>

\* lines 485-487: all the pages go through _process_page_batch in one batch;
\* the disk's behaviour during the coming write is settled
OpsFilterProcess ==
    /\ spc = "f_process"
    /\ sresult' = ProcessPageBatch([i \in 1..Len(upstream) |-> i], 1, sresult)
    /\ asked' = asked \cup {"get_page_content"}
    /\ diskFaults' \in SUBSET (1..Len(sresult'.conversion_results))
    /\ spc' = "f_write"
    /\ UNCHANGED <<upstream, overwrite_existing, batch_size, vault, srun,
                   sbatch, sexit, fileWrites, writeFailures, write_results,
                   synced, escaped, opsVars, outsideOps>>

\* lines 489-503: safe_batch_write, the counts taken from its report,
\* complete() and return
OpsFilterWrite ==
    /\ spc = "f_write"
    /\ IF sresult.conversion_results = <<>>
       THEN /\ OpsLeave(Leave(Complete(sresult), "written", FALSE))
            /\ UNCHANGED <<vault, fileWrites, writeFailures, write_results>>
       ELSE \E w \in {SafeBatchWriteResult(sresult.conversion_results,
                                           overwrite_existing, TRUE,
                                           diskFaults, vault)} :
              LET counted == [sresult EXCEPT
                                !.conversion_results = w.names,
                                !.successful_pages = w.successful_writes,
                                !.failed_pages = w.failed_writes]
              IN  /\ OpsLeave(Leave(Complete(counted), "written", FALSE))
                  /\ vault' = w.disk
                  /\ fileWrites' = w.successful_writes
                  /\ writeFailures' = w.failed_writes
                  /\ write_results' = w.write_results
    /\ UNCHANGED <<upstream, overwrite_existing, batch_size, diskFaults, srun,
                   sbatch, synced, asked, opsVars, outsideOps>>

\* recover_from_failed_sync, lines 623-630: the result that
\* sync_pages_modified_after has returned gets a warning when it recovered
\* no page, and is returned
OpsRecoverCheck ==
    /\ spc = "r_check"
    /\ sresult' = IF sresult.successful_pages > 0 THEN sresult
                  ELSE AddWarning(sresult, "nothing recovered")
    /\ spc' = "returned"
    /\ UNCHANGED <<upstream, overwrite_existing, batch_size, vault, diskFaults,
                   srun, sbatch, sexit, fileWrites, writeFailures,
                   write_results, synced, asked, escaped, opsVars,
                   outsideOps>>

\* handle_sync_interruption(sync_result), lines 741-785, on the result of
\* the last call: it reads the counts, writes the conversion results once
\* more through safe_batch_write (which renames conflicting documents) and
\* verifies the files; what it finds goes into the dictionary it returns
OpsInterruption ==
    /\ spc = "returned" /\ sexit # "none" /\ handledRun # srun
    /\ handledRun' = srun
    /\ IF sresult.conversion_results = <<>>
       THEN UNCHANGED <<sresult, vault, fileWrites>>
       ELSE \E failing \in SUBSET (1..Len(sresult.conversion_results)) :
            \E w \in {SafeBatchWriteResult(sresult.conversion_results,
                                           overwrite_existing, TRUE,
                                           failing, vault)} :
              /\ sresult' = [sresult EXCEPT !.conversion_results = w.names]
              /\ vault' = w.disk
              /\ fileWrites' = fileWrites + w.successful_writes
    /\ UNCHANGED <<upstream, overwrite_existing, batch_size, diskFaults, srun,
                   spc, sbatch, sexit, writeFailures, write_results, synced,
                   asked, escaped, op, outsideOps>>

OpsNext ==
    \/ SyncNext
    \/ \E o \in Operations : OpsCall(o)
    \/ OpsModifiedFetch
    \/ OpsFilterFetch
    \/ OpsFilterProcess
    \/ OpsFilterWrite
    \/ OpsRecoverCheck
    \/ OpsInterruption

(***************************************************************************)
(* C14: once complete() has been called on a SyncResult, no operation of   *)
(* the orchestrator changes its counts, errors or warnings.                *)
(***************************************************************************)
Report(r) ==
    <<r.total_pages, r.successful_pages, r.failed_pages, r.skipped_pages,
      r.errors, r.warnings>>

C14_CompletedResultIsNeverChanged ==
    [][(sresult.end_time # None /\ srun' = srun)
          => Report(sresult') = Report(sresult)]_vars

(***************************************************************************)
(* C15: at every point of a run of sync_all_pages or sync_pages_by_filter  *)
(* the SyncResult has successful + failed + skipped <= total, and none of  *)
(* the three counts decreases while the run lasts.                         *)
(***************************************************************************)
CountsWithinTotal(r) ==
    r.successful_pages + r.failed_pages + r.skipped_pages <= r.total_pages

CountsNotBelow(r, q) ==
    /\ r.successful_pages >= q.successful_pages
    /\ r.failed_pages >= q.failed_pages
    /\ r.skipped_pages >= q.skipped_pages

C15_CountsWithinTotalAndNeverDecrease ==
    /\ [](CountsWithinTotal(sresult))
    /\ [][srun' = srun => CountsNotBelow(sresult', sresult)]_vars

C15_Witness ==
    /\ op = "sync_pages_by_filter"
    /\ spc = "returned" /\ sexit = "written"
    /\ sresult.successful_pages > 0 /\ sresult.failed_pages > 0
    /\ sresult.total_pages = sresult.successful_pages + sresult.failed_pages

(***************************************************************************)
(* SpecRetry: NotionClient.get_page_content fetches the page through       *)
(* _retry_with_backoff(self.client.pages.retrieve, page_id) and hands      *)
(* whatever exception comes out to _handle_api_error.                      *)
(***************************************************************************)
\* NotionClient.__init__, lines 54-55
max_retries == 3
base_retry_delay == 1

\* how a call of the wrapped operation ends: it returns, or it raises the
\* SDK's APIResponseError with a status, the SDK's RequestTimeoutError, or
\* (a wrapped operation that classifies its errors) NotionRateLimitError
RetryableFailures == {"NotionRateLimitError", "status_429", "timeout"}
FatalFailures == {"status_401", "status_404"}
AttemptOutcomes == {"ok"} \cup RetryableFailures \cup FatalFailures

\* _handle_api_error, lines 69-83: the exception it raises for an error
HandleApiError(error) ==
    CASE error = "status_429" -> "NotionRateLimitError: rate limit"
      [] error = "status_401" -> "NotionAPIError: authentication"
      [] error = "status_404" -> "NotionAPIError: not found"
      [] error = "timeout" -> "NotionAPIError: timeout"
      [] OTHER -> "NotionAPIError: unexpected"

\* a loop whose last attempt is never recognised
LastAttemptNever(a) == FALSE
\* lines 92 and 98: if attempt == self.max_retries - 1: raise
LastAttempt(a) == a = max_retries - 1

\* lines 94 and 101: the delay slept after the failure of attempt a
BackoffDelay(error, a) ==
    IF error = "NotionRateLimitError" THEN base_retry_delay * (2 ^ a)
    ELSE base_retry_delay

RetryInit ==
    /\ script \in [1..max_retries -> AttemptOutcomes]
    /\ attempt = 0 /\ rtpc = "call" /\ attempts = <<>>
    /\ delays = <<>> /\ rerror = None /\ surfaced = None

\* lines 88-101, one turn of the loop up to its sleep: _wait_for_rate_limit
\* (which sleeps less than min_request_interval, and not at all after a
\* backoff delay), the call of the wrapped operation, and what its end
\* leads to
RetryAttempt ==
    /\ rtpc = "call"
    /\ LET outcome == script[attempt + 1]
       IN  /\ attempts' = Append(attempts, outcome)
           /\ IF outcome = "ok"
              THEN /\ rtpc' = "returned"
                   /\ UNCHANGED <<delays, rerror>>
              ELSE IF LastAttempt(attempt)
              THEN /\ rtpc' = "raised"
                   /\ rerror' = Some(outcome)
                   /\ UNCHANGED delays
              ELSE /\ rtpc' = "sleep"
                   /\ delays' = Append(delays, BackoffDelay(outcome, attempt))
                   /\ UNCHANGED rerror
    /\ UNCHANGED <<script, attempt, surfaced, outsideRetry>>

\* time.sleep returns and the loop goes to its next turn; a loop that has
\* made all its turns ends, and the function returns None
RetrySleepEnds ==
    /\ rtpc = "sleep"
    /\ attempt' = attempt + 1
    /\ rtpc' = IF attempt + 1 < max_retries THEN "call" ELSE "fell_through"
    /\ UNCHANGED <<script, attempts, delays, rerror, surfaced, outsideRetry>>

\* get_page_content, lines 363-364: except Exception as e:
\* self._handle_api_error(e, ...)
RetryHandle ==
    /\ rtpc = "raised"
    /\ surfaced' = Some(HandleApiError(rerror[1]))
    /\ rtpc' = "surfaced"
    /\ UNCHANGED <<script, attempt, attempts, delays, rerror, outsideRetry>>

RetryNext ==
    \/ RetryAttempt
    \/ RetrySleepEnds
    \/ RetryHandle

\* the thread that runs the call is scheduled
RetryFairness == WF_vars(RetryNext)

(***************************************************************************)
(* C16: _retry_with_backoff calls the wrapped operation at most            *)
(* max_retries times; it returns at the first attempt that succeeds and    *)
(* makes no attempt after it; when every attempt fails it raises the last  *)
(* attempt's error; the delays it sleeps are bounded, and it always ends.  *)
(***************************************************************************)
RECURSIVE SumOf(_)
SumOf(q) == IF q = <<>> THEN 0 ELSE Head(q) + SumOf(Tail(q))

\* the longest the backoff can sleep: base * (1 + 2 + ... + 2^(max_retries-2))
LongestTotalDelay == base_retry_delay * (2 ^ (max_retries - 1) - 1)

Failed(outcomes) == \A i \in DOMAIN outcomes : outcomes[i] # "ok"

C16_RetriesAreBounded ==
    /\ [](Len(attempts) <= max_retries)
    /\ [](rtpc = "returned" =>
            /\ attempts # <<>>
            /\ attempts[Len(attempts)] = "ok"
            /\ Failed(SubSeq(attempts, 1, Len(attempts) - 1)))
    /\ [][rtpc = "returned" => attempts' = attempts]_vars
    /\ [](rtpc \in {"raised", "surfaced"} =>
            /\ Len(attempts) = max_retries
            /\ Failed(attempts)
            /\ rerror = Some(attempts[max_retries]))
    /\ [](SumOf(delays) <= LongestTotalDelay)
    /\ <>(rtpc \in {"returned", "surfaced"})

C16_Witness ==
    /\ rtpc = "surfaced"
    /\ Len(attempts) = max_retries
    /\ SumOf(delays) = LongestTotalDelay

(***************************************************************************)
(* C17: a fatal failure of the wrapped operation (401 or 404) is not       *)
(* retried: no attempt follows it and no delay is slept after it.          *)
(***************************************************************************)
C17_FatalFailuresAreNotRetried ==
    \A i \in DOMAIN attempts :
        attempts[i] \in FatalFailures =>
            /\ i = Len(attempts)
            /\ Len(delays) < i

(***************************************************************************)
(* C18: after attempt k (k = 0, 1, ...) has failed with a rate limit (429) *)
(* or a timeout, the delay slept before the retry is                       *)
(* base_retry_delay * 2^k.                                                 *)
(***************************************************************************)
C18_RetryDelaysDouble ==
    \A i \in DOMAIN delays :
        attempts[i] \in RetryableFailures =>
            delays[i] = base_retry_delay * (2 ^ (i - 1))

(***************************************************************************)
(* SpecChanged: a caller asks CacheManager.get_changed_pages about a list  *)
(* of candidate pages, hands candidates to update_page_cache with the      *)
(* last_edited_time they carry, and asks again about the same list.        *)
(***************************************************************************)
\* a page of the database as the caller passes it: page_data.get('id') and
\* page_data.get('last_edited_time')
PageData == [id : PageIds, last_edited_time : Revisions]

\* the pages of a database query: each page occurs once
CandidateLists ==
    {q \in UNION {[1..n -> PageData] : n \in 0..Cardinality(PageIds)} :
        \A i, j \in DOMAIN q : q[i].id = q[j].id => i = j}

\* the caches that earlier update_page_cache calls can have left
Stores ==
    {[id \in PageIds |->
        IF revs[id] = "none" THEN NoEntry
        ELSE NewCacheEntry(id, revs[id], "text1", None)] :
     revs \in [PageIds -> Revisions \cup {"none"}]}

\* a loop that puts each changed page in front of the ones found before
RECURSIVE GetChangedPagesBackwards(_, _)
GetChangedPagesBackwards(store, data) ==
    IF data = <<>> THEN <<>>
    ELSE LET page_data == Head(data)
             rest == GetChangedPagesBackwards(store, Tail(data))
         IN  IF IsPageChanged(store, page_data.id,
                              page_data.last_edited_time, None, None)
             THEN rest \o <<page_data>>
             ELSE rest

\* CacheManager.get_changed_pages, lines 189-199: the loop over pages_data
RECURSIVE GetChangedPages(_, _)
GetChangedPages(store, data) ==
    IF data = <<>> THEN <<>>
    ELSE LET page_data == Head(data)
             rest == GetChangedPages(store, Tail(data))
         IN  IF IsPageChanged(store, page_data.id,
                              page_data.last_edited_time, None, None)
             THEN <<page_data>> \o rest
             ELSE rest

ChangedInit ==
    /\ cache \in Stores
    /\ query = NoQuery /\ changed = FALSE
    /\ pages_data \in CandidateLists
    /\ gpc = "start" /\ changed_pages = <<>>
    /\ seen = [id \in PageIds |-> NoEntry]
    /\ applied = 0

\* get_changed_pages(pages_data): the first call, or a later one
ChangedGetChangedPages ==
    /\ gpc \in {"start", "updating"}
    /\ changed_pages' = GetChangedPages(cache, pages_data)
    /\ seen' = cache
    /\ gpc' = IF gpc = "start" THEN "updating" ELSE "asked again"
    /\ UNCHANGED <<cache, query, changed, pages_data, applied, outsideChanged>>

\* update_page_cache for the next candidate, with the last_edited_time the
\* candidate carries and the content that was written for it
ChangedUpdatePageCache ==
    /\ gpc = "updating" /\ applied < Len(pages_data)
    /\ \E c \in PageContents :
         LET page_data == pages_data[applied + 1]
         IN  cache' = [cache EXCEPT ![page_data.id] =
                         NewCacheEntry(page_data.id,
                                       page_data.last_edited_time, c, None)]
    /\ applied' = applied + 1
    /\ UNCHANGED <<query, changed, pages_data, gpc, changed_pages, seen,
                   outsideChanged>>

ChangedNext ==
    \/ ChangedGetChangedPages
    \/ ChangedUpdatePageCache

(***************************************************************************)
(* C20: get_changed_pages returns exactly the candidates, in input order,  *)
(* that have no cache entry or whose cached last_edited_time differs from  *)
(* theirs: all of them when the cache is empty, none of them once          *)
(* update_page_cache has been applied to every candidate with its          *)
(* last_edited_time; and the call leaves the cache as it was.              *)
(***************************************************************************)
Unknown(store, page_data) ==
    \/ ~store[page_data.id].present
    \/ store[page_data.id].last_edited_time # page_data.last_edited_time

\* the indices of the candidates the call should return, and the
\* subsequence of the candidates at those indices
UnknownAt(store) == {i \in DOMAIN pages_data : Unknown(store, pages_data[i])}

IsSubsequenceAt(sub, indices) ==
    /\ Len(sub) = Cardinality(indices)
    /\ \A n \in DOMAIN sub :
         \E i \in indices :
            /\ sub[n] = pages_data[i]
            /\ Cardinality({j \in indices : j < i}) = n - 1

C20_ChangedPagesAreTheUnknownCandidates ==
    /\ [](gpc \in {"updating", "asked again"} =>
            /\ IsSubsequenceAt(changed_pages, UnknownAt(seen))
            /\ seen = [id \in PageIds |-> NoEntry]
                  => changed_pages = pages_data)
    /\ [](gpc = "asked again" /\ applied = Len(pages_data)
            => changed_pages = <<>>)
    /\ [][gpc' # gpc => cache' = cache]_vars

C20_Witness ==
    /\ gpc = "asked again"
    /\ Len(pages_data) = Cardinality(PageIds)
    /\ applied = 1
    /\ changed_pages = <<pages_data[2]>>
    /\ seen[pages_data[2].id].present

(***************************************************************************)
(* SpecQuery: get_wait_time() is called on a RateLimiter in use, at        *)
(* moments when no acquire() holds the lock.                               *)
(***************************************************************************)
\* acquire(), lines 62-80: the time for which a call made now would sleep
AcquireSuspension(tok, time_passed) ==
    LET refilled == Refill(tok, time_passed)
    IN  IF refilled >= OneToken THEN 0 ELSE WaitTime(refilled)

QueryIdle == wait_query = None

\* get_wait_time(): reads self.tokens, takes no lock, assigns nothing
RateGetWaitTime ==
    /\ rlock = NoCoroutine
    /\ wait_query' = Some([returned |-> GetWaitTime(tokens),
                           suspension |->
                              AcquireSuspension(tokens, now - last_update)])
    /\ UNCHANGED <<rateVars, outsideQuery>>

QueryNext ==
    \/ RateNext
    \/ RateGetWaitTime

(***************************************************************************)
(* C28: what get_wait_time() returns is the time for which an acquire()    *)
(* made at the same moment would sleep, whatever the bucket holds and      *)
(* however long ago it was last updated.                                   *)
(***************************************************************************)
C28_GetWaitTimeIsTheSuspensionOfAcquire ==
    wait_query # None
       => wait_query[1].returned = wait_query[1].suspension

(***************************************************************************)
(* C29: in process_pages_async and process_pages_threaded no more calls of *)
(* processor_func have been made than tokens have been taken from the      *)
(* RateLimiter by an acquire() that returned.                              *)
(***************************************************************************)
Invoked == {k \in DOMAIN pages : epc[k] \in {"run", "done"}}

C29_EveryInvocationHasTakenAToken == Cardinality(Invoked) <= Len(grants)

(***************************************************************************)
(* SpecPreflight: sync_all_pages on a database of pages whose documents    *)
(* are already in the vault, so that the preview of the validation finds   *)
(* one conflict per page.                                                  *)
(***************************************************************************)
MaxPreview == 6

PreviewName(i) == <<"p", DigitChar(i), ".", "m", "d">>

PreflightInit ==
    /\ \E n \in 0..MaxPreview, outcome \in Outcomes :
         upstream = [i \in 1..n |-> [filename |-> PreviewName(i),
                                     outcome |-> outcome]]
    /\ overwrite_existing \in BOOLEAN
    /\ batch_size = MaxBatch
    /\ vault \in {{}, {PreviewName(i) : i \in 1..MaxPreview}}
    /\ diskFaults = {}
    /\ srun = 1 /\ spc = "start" /\ sbatch = 1
    /\ sresult = NewSyncResult /\ sexit = "none"
    /\ fileWrites = 0 /\ writeFailures = 0 /\ write_results = EmptyDict
    /\ synced = FALSE /\ asked = {} /\ escaped = FALSE

(***************************************************************************)
(* C26: a run of sync_all_pages whose validation has found more than five  *)
(* filename conflicts in its preview goes no further than the validation:  *)
(* no run that has passed the validation carries the warning of many       *)
(* conflicts.                                                              *)
(***************************************************************************)
C26_ManyConflictsAbortTheRun ==
    (spc # "start" /\ sexit # "invalid")
       => "conflicts" \notin Range(sresult.warnings)

(***************************************************************************)
(* SpecDir: the upkeep of the destination directory.  A file is its name   *)
(* and what it holds: whether its bytes decode as UTF-8, whether a line of *)
(* it is longer than 1000 characters, and its modification time.           *)
(***************************************************************************)
MaxBackups == 4
MaxMtime == 2
MaxKeep == 2

NoteA == <<"a", ".", "m", "d">>
NoteCon == <<"c", "o", "n", ".", "m", "d">>
SortedNotes == <<NoteA, NoteCon>>

BackupSuffix == <<".", "b", "a", "c", "k", "u", "p">>
CorruptedSuffix == <<".", "c", "o", "r", "r", "u", "p", "t", "e", "d">>

\* the backups the directory may hold: 1.backup, 2.backup, ...
BackupNames == {IntToStr(i) \o BackupSuffix : i \in 1..MaxBackups}

\* glob("*.backup") on a name
IsBackupName(f) ==
    /\ Len(f) >= Len(BackupSuffix)
    /\ SubSeq(f, Len(f) - Len(BackupSuffix) + 1, Len(f)) = BackupSuffix

ValidNote == [decodable |-> TRUE, long_line |-> FALSE, mtime |-> 0]
NoteContents == [decodable : BOOLEAN, long_line : BOOLEAN, mtime : {0}]

\* dict.get(key, default)
Get(d, key, default) == IF key \in DOMAIN d THEN d[key] ELSE default

\* str.upper() on one character of the alphabet
UpperChar(c) ==
    CASE c = "a" -> "A" [] c = "c" -> "C" [] c = "d" -> "D" [] c = "m" -> "M"
      [] c = "n" -> "N" [] c = "o" -> "O" [] OTHER -> c

Upper(f) == [i \in 1..Len(f) |-> UpperChar(f[i])]

DangerousChars == {"<", ">", ":", "\"", "|", "?", "*", "\\", "/"}

ReservedNames ==
    {<<"C", "O", "N">>, <<"P", "R", "N">>, <<"A", "U", "X">>, <<"N", "U", "L">>}
      \cup {<<"C", "O", "M", DigitChar(d)>> : d \in 1..9}
      \cup {<<"L", "P", "T", DigitChar(d)>> : d \in 1..9}

\* MarkdownFile._is_safe_filename
IsSafeFilename(filename) ==
    /\ \A i \in 1..Len(filename) : filename[i] \notin DangerousChars
    /\ Upper(PathStem(filename)) \notin ReservedNames
    /\ \E i \in 1..Len(filename) : filename[i] # " "

\* FileManager.verify_file_integrity: the dictionary it returns.  A file
\* that cannot be decoded raises UnicodeDecodeError; MarkdownFile.from_string
\* raises ValueError from __post_init__ for a name that is not safe
VerifyFileIntegrity(dir, filename) ==
    IF filename \notin DOMAIN dir THEN [exists |-> FALSE]
    ELSE IF ~dir[filename].decodable THEN [exists |-> TRUE, readable |-> FALSE]
    ELSE IF filename = <<>> \/ ~IsSafeFilename(filename)
         THEN [exists |-> TRUE, readable |-> FALSE]
    ELSE [exists |-> TRUE, readable |-> TRUE,
          is_valid |-> ~dir[filename].long_line]

\* FileManager.list_markdown_files: sorted(names of *.md)
ListMarkdownSorted(dir) == SelectSeq(SortedNotes, LAMBDA f : f \in DOMAIN dir)

\* FileManager.batch_verify_integrity()
BatchVerifyIntegrity(dir) ==
    [f \in Range(ListMarkdownSorted(dir)) |-> VerifyFileIntegrity(dir, f)]

\* pathlib: PurePath.with_suffix
WithSuffix(f, suffix) == PathStem(f) \o suffix

\* FileManager.backup_file: shutil.copy2 may raise, which is caught
BackupPath(filename, backup_suffix) ==
    WithSuffix(filename, PathSuffix(filename) \o backup_suffix)

BackupFile(dir, filename, backup_suffix, copyFails) ==
    IF filename \notin DOMAIN dir THEN [ok |-> FALSE, dir |-> dir]
    ELSE IF filename \in copyFails THEN [ok |-> FALSE, dir |-> dir]
    ELSE [ok |-> TRUE,
          dir |-> DictPut(dir, BackupPath(filename, backup_suffix),
                          dir[filename])]

Without(dir, filename) == [f \in DOMAIN dir \ {filename} |-> dir[f]]

\* FileManager.delete_file: unlink may raise, which is caught
DeleteFileOf(dir, filename, unlinkFails) ==
    IF filename \notin DOMAIN dir THEN [ok |-> FALSE, dir |-> dir]
    ELSE IF filename \in unlinkFails THEN [ok |-> FALSE, dir |-> dir]
    ELSE [ok |-> TRUE, dir |-> Without(dir, filename)]

(***************************************************************************)
(* FileManager.cleanup_old_backups                                         *)
(***************************************************************************)
\* list[:stop] of Python
SliceUntil(s, stop) ==
    LET n == Len(s)
        e == IF stop < 0 THEN (IF n + stop < 0 THEN 0 ELSE n + stop)
             ELSE (IF stop > n THEN n ELSE stop)
    IN  SubSeq(s, 1, e)

\* backup_files[:-max_backups]
OldestBeyond(s, max_backups) == SliceUntil(s, 0 - max_backups)

BackupFilesOf(dir) == {f \in DOMAIN dir : IsBackupName(f)}

\* the orders list.sort(key = st_mtime) may leave the globbed files in
SortedByMtime(dir) ==
    LET files == BackupFilesOf(dir)
        n == Cardinality(files)
    IN  {s \in [1..n -> files] :
           /\ \A i, j \in 1..n : i # j => s[i] # s[j]
           /\ \A i, j \in 1..n : i < j => dir[s[i]].mtime <= dir[s[j]].mtime}

RECURSIVE UnlinkLoop(_, _, _, _)
UnlinkLoop(dir, files, i, unlinkFails) ==
    IF i > Len(files) THEN dir
    ELSE UnlinkLoop(IF files[i] \in unlinkFails THEN dir
                    ELSE Without(dir, files[i]),
                    files, i + 1, unlinkFails)

CleanupOldBackups(dir, max_backups, sorted, unlinkFails) ==
    IF Cardinality(BackupFilesOf(dir)) <= max_backups THEN dir
    ELSE UnlinkLoop(dir, OldestBeyond(sorted, max_backups), 1, unlinkFails)

(***************************************************************************)
(* SyncOrchestrator.cleanup_failed_files                                   *)
(***************************************************************************)
KeptBackups == 3

NewCleanupResult(integrity_results) ==
    [checked_files |-> Cardinality(DOMAIN integrity_results),
     corrupted_files |-> <<>>, deleted_files |-> <<>>, backup_files |-> <<>>,
     errors |-> <<>>]

RECURSIVE CleanupLoop(_, _, _, _, _, _, _)
CleanupLoop(names, i, integrity_results, dir, res, copyFails, unlinkFails) ==
    IF i > Len(names) THEN [dir |-> dir, res |-> res]
    ELSE LET filename == names[i]
             result == integrity_results[filename]
         IN  IF ~Get(result, "exists", TRUE)
             THEN CleanupLoop(names, i + 1, integrity_results, dir, res,
                              copyFails, unlinkFails)
             ELSE IF ~Get(result, "readable", TRUE)
             THEN LET b == BackupFile(dir, filename, CorruptedSuffix, copyFails)
                      d == DeleteFileOf(b.dir, filename, unlinkFails)
                  IN  CleanupLoop(names, i + 1, integrity_results, d.dir,
                        [res EXCEPT
                           !.corrupted_files = Append(@, filename),
                           !.backup_files =
                              IF b.ok THEN Append(@, filename \o CorruptedSuffix)
                              ELSE @,
                           !.deleted_files =
                              IF d.ok THEN Append(@, filename) ELSE @],
                        copyFails, unlinkFails)
             ELSE CleanupLoop(names, i + 1, integrity_results, dir, res,
                              copyFails, unlinkFails)

CleanupFailedFiles(dir, copyFails, unlinkFails) ==
    LET integrity_results == BatchVerifyIntegrity(dir)
    IN  CleanupLoop(ListMarkdownSorted(dir), 1, integrity_results, dir,
                    NewCleanupResult(integrity_results), copyFails, unlinkFails)

(***************************************************************************)
(* SyncOrchestrator.handle_sync_interruption: the flush of the conversion  *)
(* results and the integrity pass.                                         *)
(***************************************************************************)
\* the files of a directory after safe_batch_write has written some
AfterWrite(dir, w, content) ==
    [f \in w.disk |->
       IF f \in DOMAIN w.write_results /\ w.write_results[f] THEN content
       ELSE IF f \in DOMAIN dir THEN dir[f] ELSE content]

\* [name for name, result in integrity_results.items()
\*       if not result.get("is_valid", True)]
CorruptedFiles(dir) ==
    SelectSeq(ListMarkdownSorted(dir),
              LAMBDA f : ~Get(BatchVerifyIntegrity(dir)[f], "is_valid", TRUE))

NoCall ==
    [name |-> "none", copyFails |-> {}, unlinkFails |-> {}, max_backups |-> 0,
     conversion_results |-> <<>>, flushRaises |-> FALSE]

\* at most one file of S on which the system call fails
Faults(S) == {{}} \cup {{f} : f \in S}

DirIdle ==
    /\ directory = [f \in {} |-> ValidNote] /\ dop = NoCall
    /\ dresult = [f \in {} |-> <<>>] /\ before = [f \in {} |-> ValidNote]

\* a *.backup file last modified at mtime
BackupAt(mtime) == [decodable |-> TRUE, long_line |-> FALSE, mtime |-> mtime]

DirInit ==
    /\ \E notes \in SUBSET Range(SortedNotes), backups \in SUBSET BackupNames :
       \E held \in [notes -> NoteContents], mtimes \in [backups -> 1..MaxMtime] :
         directory = [f \in notes \cup backups |->
                        IF f \in notes THEN held[f] ELSE BackupAt(mtimes[f])]
    /\ dop = NoCall
    /\ dresult = [f \in {} |-> <<>>]
    /\ before = directory

DirCleanupFailedFiles ==
    /\ dop.name = "none"
    /\ \E copyFails \in Faults(Range(ListMarkdownSorted(directory))) :
       \E unlinkFails \in Faults(DOMAIN directory) :
       \E sorted \in SortedByMtime(directory) :
         LET c == CleanupFailedFiles(directory, copyFails, unlinkFails)
         IN  /\ dop' = [NoCall EXCEPT !.name = "cleanup_failed_files",
                                      !.copyFails = copyFails,
                                      !.unlinkFails = unlinkFails,
                                      !.max_backups = KeptBackups]
             /\ directory' = CleanupOldBackups(c.dir, KeptBackups, sorted,
                                               unlinkFails)
             /\ dresult' = c.res
    /\ UNCHANGED <<before, outsideDir>>

DirCleanupOldBackups ==
    /\ dop.name = "none"
    /\ \E max_backups \in 0..MaxKeep :
       \E unlinkFails \in Faults(BackupFilesOf(directory)) :
       \E sorted \in SortedByMtime(directory) :
         /\ dop' = [NoCall EXCEPT !.name = "cleanup_old_backups",
                                  !.unlinkFails = unlinkFails,
                                  !.max_backups = max_backups]
         /\ directory' = CleanupOldBackups(directory, max_backups, sorted,
                                           unlinkFails)
    /\ UNCHANGED <<dresult, before, outsideDir>>

DirHandleSyncInterruption ==
    /\ dop.name = "none"
    /\ \E conversion_results \in {<<>>, <<NoteA>>, <<NameUpper>>} :
       \E flushRaises \in BOOLEAN :
       \E overwrite \in BOOLEAN :
       \E failing \in SUBSET (1..Len(conversion_results)) :
       \E content \in {c \in NoteContents : c.decodable} :
         LET flushed == conversion_results # <<>> /\ ~flushRaises
             w == SafeBatchWriteResult(conversion_results, overwrite, TRUE,
                                       failing, DOMAIN directory)
             dir == IF flushed THEN AfterWrite(directory, w, content)
                    ELSE directory
         IN  /\ flushRaises => conversion_results # <<>>
             /\ dop' = [NoCall EXCEPT !.name = "handle_sync_interruption",
                                      !.conversion_results = conversion_results,
                                      !.flushRaises = flushRaises]
             /\ directory' = dir
             /\ dresult' =
                  [partial_results |-> Len(conversion_results),
                   partial_save_successful |->
                      IF flushed THEN w.successful_writes ELSE 0,
                   partial_save_error |-> flushRaises,
                   corrupted_files |-> CorruptedFiles(dir)]
    /\ UNCHANGED <<before, outsideDir>>

DirNext ==
    \/ DirCleanupFailedFiles
    \/ DirCleanupOldBackups
    \/ DirHandleSyncInterruption

(***************************************************************************)
(* C24: cleanup_failed_files, when no copy and no unlink fails: every      *)
(* markdown file that cannot be decoded is listed in corrupted_files, is   *)
(* copied to <name>.corrupted and deleted, with its name in deleted_files  *)
(* and the backup's name in backup_files; every markdown file that can be  *)
(* decoded is still there, unchanged, has no <name>.corrupted copy and is  *)
(* not in deleted_files.                                                   *)
(***************************************************************************)
NotesOf(dir) == Range(ListMarkdownSorted(dir))

C24_UndecodableBackedUpAndDeletedReadableKept ==
    (dop.name = "cleanup_failed_files" /\ dop.copyFails = {}
        /\ dop.unlinkFails = {})
      => \A f \in NotesOf(before) :
           IF ~before[f].decodable
           THEN /\ f \in Range(dresult.corrupted_files)
                /\ f \notin DOMAIN directory
                /\ f \o CorruptedSuffix \in DOMAIN directory
                /\ directory[f \o CorruptedSuffix] = before[f]
                /\ f \in Range(dresult.deleted_files)
                /\ f \o CorruptedSuffix \in Range(dresult.backup_files)
           ELSE /\ f \in DOMAIN directory
                /\ directory[f] = before[f]
                /\ f \o CorruptedSuffix \notin DOMAIN directory
                /\ f \notin Range(dresult.deleted_files)

(***************************************************************************)
(* C37: cleanup_failed_files deletes a corrupted file only when its backup *)
(* <name>.corrupted has been made; a file whose backup has failed is left  *)
(* as it was and is not in deleted_files.                                  *)
(***************************************************************************)
C37_DeletedOnlyWhenBackedUp ==
    dop.name = "cleanup_failed_files"
      => /\ \A f \in Range(dresult.deleted_files) :
              /\ f \o CorruptedSuffix \in Range(dresult.backup_files)
              /\ BackupPath(f, CorruptedSuffix) \in DOMAIN directory
         /\ \A f \in Range(dresult.corrupted_files) \cap dop.copyFails :
              /\ f \in DOMAIN directory /\ directory[f] = before[f]
              /\ f \notin Range(dresult.deleted_files)

(***************************************************************************)
(* C25: handle_sync_interruption returns a corrupted_files list, whether   *)
(* or not the flush of the conversion results has failed, and that list    *)
(* holds every markdown file of the directory that cannot be decoded or    *)
(* that has warnings.                                                      *)
(***************************************************************************)
C25_CorruptedFilesHoldsEveryFailingFile ==
    dop.name = "handle_sync_interruption"
      => /\ "corrupted_files" \in DOMAIN dresult
         /\ \A f \in NotesOf(directory) :
              (~directory[f].decodable \/ directory[f].long_line)
                 => f \in Range(dresult.corrupted_files)

(***************************************************************************)
(* C30: after cleanup_old_backups(max_backups) in which no unlink failed,  *)
(* at most max_backups files *.backup are left, none of the deleted ones   *)
(* is newer than one that is left, and every other file is as it was.      *)
(***************************************************************************)
C30_AtMostMaxBackupsAreLeft ==
    (dop.name = "cleanup_old_backups" /\ dop.unlinkFails = {})
      => /\ Cardinality(BackupFilesOf(directory)) <= dop.max_backups
         /\ \A k \in BackupFilesOf(directory) :
              \A d \in BackupFilesOf(before) \ DOMAIN directory :
                 before[d].mtime <= before[k].mtime
         /\ \A f \in DOMAIN before :
              (~IsBackupName(f) \/ f \in DOMAIN directory)
                 => f \in DOMAIN directory /\ directory[f] = before[f]

(***************************************************************************)
(* SpecStore: a CacheManager and the JSON document page_cache.json.  Time  *)
(* is counted in days.                                                     *)
(***************************************************************************)
MaxDays == 2
MaxAge == 1

\* PageCacheEntry(...) of update_page_cache: cached_at = now, block_count = 0
StampedCacheEntry(page_id, last_edited_time, content, optProps, day) ==
    LET e == NewCacheEntry(page_id, last_edited_time, content, optProps)
    IN  [k \in DOMAIN e \cup {"cached_at", "block_count"} |->
           IF k = "cached_at" THEN day
           ELSE IF k = "block_count" THEN 0 ELSE e[k]]

\* PageCacheEntry.to_dict: asdict(self)
ToDict(entry) == [k \in DOMAIN entry \ {"present"} |-> entry[k]]

\* PageCacheEntry.from_dict: cls(**data)
FromDict(data) ==
    [k \in DOMAIN data \cup {"present"} |->
       IF k = "present" THEN TRUE ELSE data[k]]

\* json.dump of {page_id: entry.to_dict()}; a write that fails half way
\* leaves a text that does not parse
JsonDump(store) ==
    <<"json", [id \in {i \in DOMAIN store : store[i].present} |->
                 ToDict(store[id])]>>
JsonTruncated == <<"truncated">>

EmptyCache == [id \in PageIds |-> NoEntry]

\* CacheManager.__init__ / load_cache on the file as it is
LoadCache(file) ==
    IF file = None THEN EmptyCache
    ELSE IF Len(file[1]) = Len(JsonTruncated) THEN EmptyCache   \* json.load raises
    ELSE LET cache_data == file[1][2]
         IN  [id \in PageIds |->
                IF id \in DOMAIN cache_data THEN FromDict(cache_data[id])
                ELSE NoEntry]

\* cleanup_old_cache: the entries cached before the cutoff are deleted
CleanupOldCache(store, day, max_age_days) ==
    LET cutoff_date == day - max_age_days
    IN  [id \in DOMAIN store |->
           IF store[id].present /\ store[id].cached_at < cutoff_date
           THEN NoEntry ELSE store[id]]

StoreIdle ==
    /\ memory = EmptyCache /\ cache_file = None /\ today = 0
    /\ stlast = "none" /\ stcalls = 0

\* a CacheManager made on a cache directory that is new
StoreInit ==
    /\ memory = LoadCache(None)
    /\ cache_file = None
    /\ today = 0
    /\ stlast = "__init__"
    /\ stcalls = 0

StoreCalled(name) ==
    /\ stcalls < MaxOps
    /\ stcalls' = stcalls + 1
    /\ stlast' = name

StoreUpdatePageCache ==
    /\ StoreCalled("update_page_cache")
    /\ \E id \in PageIds, rev \in Revisions, props \in {None, Some({})} :
         memory' = [memory EXCEPT
                      ![id] = StampedCacheEntry(id, rev, "text1", props, today)]
    /\ UNCHANGED <<cache_file, today, outsideStore>>

StoreRemovePageCache ==
    /\ StoreCalled("remove_page_cache")
    /\ \E id \in PageIds : memory' = [memory EXCEPT ![id] = NoEntry]
    /\ UNCHANGED <<cache_file, today, outsideStore>>

StoreCleanupOldCache ==
    /\ StoreCalled("cleanup_old_cache")
    /\ \E max_age_days \in 0..MaxAge :
         memory' = CleanupOldCache(memory, today, max_age_days)
    /\ UNCHANGED <<cache_file, today, outsideStore>>

StoreSaveCache ==
    /\ StoreCalled("save_cache")
    /\ \/ cache_file' = Some(JsonDump(memory))
       \/ cache_file' = Some(JsonTruncated)      \* the write fails half way
       \/ cache_file' = cache_file               \* open() fails
    /\ UNCHANGED <<memory, today, outsideStore>>

StoreClearCache ==
    /\ StoreCalled("clear_cache")
    /\ memory' = EmptyCache
    /\ cache_file' = None
    /\ UNCHANGED <<today, outsideStore>>

\* the process ends and a new CacheManager is made on the same directory
StoreRestart ==
    /\ StoreCalled("__init__")
    /\ memory' = LoadCache(cache_file)
    /\ UNCHANGED <<cache_file, today, outsideStore>>

StoreDayPasses ==
    /\ today < MaxDays
    /\ today' = today + 1
    /\ UNCHANGED <<memory, cache_file, stlast, stcalls, outsideStore>>

StoreNext ==
    \/ StoreUpdatePageCache
    \/ StoreRemovePageCache
    \/ StoreCleanupOldCache
    \/ StoreSaveCache
    \/ StoreClearCache
    \/ StoreRestart
    \/ StoreDayPasses

(***************************************************************************)
(* C27: when update_page_cache, remove_page_cache or cleanup_old_cache has *)
(* returned, a CacheManager loaded from page_cache.json holds the entries  *)
(* of the cache in memory.                                                 *)
(***************************************************************************)
C27_MutationsAreSavedBeforeReturning ==
    stlast \in {"update_page_cache", "remove_page_cache", "cleanup_old_cache"}
       => LoadCache(cache_file) = memory

(***************************************************************************)
(* What sync_all_pages asks of its collaborators.  SpecSync and SpecOps    *)
(* leave it unrecorded; SpecRun records it.                                *)
(***************************************************************************)
TraceIdle ==
    /\ requested = <<>> /\ converted = <<>> /\ progress_calls = <<>>
    /\ writer_calls = <<>> /\ has_callback = FALSE

SyncUntracedNext == SyncNext /\ UNCHANGED traceVars

OpsUntracedNext == OpsNext /\ UNCHANGED traceVars

(***************************************************************************)
(* sync_all_pages with its calls recorded: get_page_content,               *)
(* convert_page_to_markdown, the progress callback and safe_batch_write.   *)
(***************************************************************************)
NoTrace == [requested |-> <<>>, converted |-> <<>>, progress_calls |-> <<>>]

\* a loop that ends at the first page whose processing raises
BreakAfterError(ids, i) == Len(ids) + 1

\* _process_page_batch, line 454: an exception of one page is recorded and
\* the loop goes on with the next page
ContinueAfterError(ids, i) == i + 1

\* _process_page_batch, lines 425-430: the position the callback is given
CurrentProgress(r) ==
    r.successful_pages + r.failed_pages + r.skipped_pages + 1

\* _process_page_batch: the calls the loop makes for pages i.. of a batch.
\* The callback is the one main.py passes, which prints and returns
RECURSIVE TracePageBatch(_, _, _, _)
TracePageBatch(ids, i, r, t) ==
    IF i > Len(ids) THEN t
    ELSE LET page == upstream[ids[i]]
             fetched == page.outcome # "fetch_fails"
         IN  TracePageBatch(ids,
               IF fetched THEN i + 1 ELSE ContinueAfterError(ids, i),
               ProcessPageBatch(<<ids[i]>>, 1, r),
               [requested |-> Append(t.requested, ids[i]),
                converted |-> IF fetched THEN Append(t.converted, ids[i])
                              ELSE t.converted,
                progress_calls |->
                    IF has_callback
                    THEN Append(t.progress_calls,
                                [current |-> CurrentProgress(r),
                                 total |-> r.total_pages])
                    ELSE t.progress_calls])

RunValidate == SyncValidate /\ UNCHANGED traceVars

RunFetch == SyncFetch /\ UNCHANGED traceVars

RunProcessBatch ==
    /\ SyncProcessBatch
    /\ \E t \in {TracePageBatch(BatchOf(sbatch), 1, sresult,
                                [requested |-> requested,
                                 converted |-> converted,
                                 progress_calls |-> progress_calls])} :
         /\ requested' = t.requested
         /\ converted' = t.converted
         /\ progress_calls' = t.progress_calls
    /\ UNCHANGED <<writer_calls, has_callback>>

\* lines 378-383 without `if result.conversion_results`
RunWriteUnguarded ==
    /\ SyncWrite
    /\ writer_calls' = Append(writer_calls, sresult.conversion_results)
    /\ UNCHANGED <<requested, converted, progress_calls, has_callback>>

\* lines 378-383: safe_batch_write is given result.conversion_results
RunWrite ==
    /\ SyncWrite
    /\ writer_calls' = IF sresult.conversion_results = <<>> THEN writer_calls
                       ELSE Append(writer_calls, sresult.conversion_results)
    /\ UNCHANGED <<requested, converted, progress_calls, has_callback>>

RunAgain ==
    /\ SyncAgain
    /\ requested' = <<>> /\ converted' = <<>> /\ progress_calls' = <<>>
    /\ writer_calls' = <<>>
    /\ UNCHANGED has_callback

RunNext ==
    \/ RunValidate
    \/ RunFetch
    \/ RunProcessBatch
    \/ RunWrite
    \/ RunAgain

RunInit ==
    /\ SyncInit
    /\ requested = <<>> /\ converted = <<>> /\ progress_calls = <<>>
    /\ writer_calls = <<>> /\ has_callback \in BOOLEAN

\* the call has passed validation and has returned after its write step
RunWritten == spc = "returned" /\ sexit = "written"

\* the conversion result convert_page_to_markdown gives for page id: the
\* page's document, or the fallback document when the conversion has failed
ConversionResultOf(id) ==
    IF upstream[id].outcome = "ok" THEN upstream[id].filename
    ELSE FallbackFilename(id)

FetchOrder == [k \in 1..Len(upstream) |-> k]

ContentFetched(id) == upstream[id].outcome # "fetch_fails"

C39_CallbackCountsFromOneToTotal ==
    (has_callback /\ RunWritten) =>
        progress_calls = [k \in 1..sresult.total_pages |->
                             [current |-> k, total |-> sresult.total_pages]]

(***************************************************************************)
(* Specifications: one per component; the other components stay idle.      *)
(***************************************************************************)
NamesIdle ==
    /\ batch = <<>> /\ existing = {} /\ conflicts = EmptyDict
    /\ resolved = <<>> /\ report = NoReport /\ nop = "none"

WriteIdle ==
    /\ fs = [f \in Files |-> Absent] /\ orphans = {}
    /\ fileLocks = [x \in {} |-> 0] /\ lockOwner = <<>> /\ locksLock = NoThread
    /\ tpc = [t \in Threads |-> "idle"] /\ top = [t \in Threads |-> IdleOp]
    /\ tret = [t \in Threads |-> RetNone]
    /\ ops = 0 /\ alive = TRUE

RateIdle ==
    /\ rate = 1 /\ burst = 1 /\ tokens = OneToken /\ last_update = 0
    /\ rlock = NoCoroutine /\ now = 0 /\ rpc = [c \in Coroutines |-> "idle"]
    /\ wake = [c \in Coroutines |-> 0] /\ grants = <<>> /\ calls = 0

InitNames ==
    /\ NamesInit /\ WriteIdle /\ CacheInit /\ RateIdle /\ ExecIdle /\ SyncIdle
    /\ RetryIdle /\ ChangedIdle /\ DirIdle /\ StoreIdle /\ QueryIdle /\ TraceIdle
SpecNames == InitNames /\ [][NamesNext]_vars
\* resolve_filename_conflicts alone, on every batch
SpecResolve == InitNames /\ [][NamesResolveFilenameConflicts]_vars

InitWrite ==
    /\ WriteInit /\ NamesIdle /\ CacheInit /\ RateIdle /\ ExecIdle /\ SyncIdle
    /\ RetryIdle /\ ChangedIdle /\ DirIdle /\ StoreIdle /\ QueryIdle /\ TraceIdle
SpecWrite == InitWrite /\ [][WriteNext]_vars

InitCache ==
    /\ CacheInit /\ NamesIdle /\ WriteIdle /\ RateIdle /\ ExecIdle /\ SyncIdle
    /\ RetryIdle /\ ChangedIdle /\ DirIdle /\ StoreIdle /\ QueryIdle /\ TraceIdle
SpecCache == InitCache /\ [][CacheNext]_vars

InitRate ==
    /\ RateInit /\ NamesIdle /\ WriteIdle /\ CacheInit /\ ExecIdle /\ SyncIdle
    /\ RetryIdle /\ ChangedIdle /\ DirIdle /\ StoreIdle /\ QueryIdle /\ TraceIdle
SpecRate == InitRate /\ [][RateNext]_vars
SpecBurst == InitRate /\ [][BurstNext]_vars /\ BurstFairness

InitExec ==
    /\ ExecInit /\ NamesIdle /\ WriteIdle /\ CacheInit /\ SyncIdle
    /\ RetryIdle /\ ChangedIdle /\ DirIdle /\ StoreIdle /\ QueryIdle /\ TraceIdle
SpecExec == InitExec /\ [][ExecNext]_vars
SpecExecFair == SpecExec /\ ExecFairness

InitProgress ==
    /\ ProgressInit /\ NamesIdle /\ WriteIdle /\ CacheInit /\ SyncIdle
    /\ RetryIdle /\ ChangedIdle /\ DirIdle /\ StoreIdle /\ QueryIdle /\ TraceIdle
SpecProgress == InitProgress /\ [][ProgressNext]_vars

InitBatch ==
    /\ BatchInit /\ NamesIdle /\ WriteIdle /\ CacheInit /\ SyncIdle
    /\ RetryIdle /\ ChangedIdle /\ DirIdle /\ StoreIdle /\ QueryIdle /\ TraceIdle
SpecBatch == InitBatch /\ [][BatchNext]_vars

InitSync ==
    /\ SyncInit /\ OpsIdle /\ NamesIdle /\ WriteIdle /\ CacheInit /\ RateIdle /\ ExecIdle
    /\ RetryIdle /\ ChangedIdle /\ DirIdle /\ StoreIdle /\ QueryIdle /\ TraceIdle
SpecSync == InitSync /\ [][SyncUntracedNext]_vars
SpecSyncFair == SpecSync /\ SyncFairness

InitOps ==
    /\ OpsInit /\ NamesIdle /\ WriteIdle /\ CacheInit /\ RateIdle /\ ExecIdle
    /\ RetryIdle /\ ChangedIdle /\ DirIdle /\ StoreIdle /\ QueryIdle /\ TraceIdle
SpecOps == InitOps /\ [][OpsUntracedNext]_vars

InitRetry ==
    /\ RetryInit /\ NamesIdle /\ WriteIdle /\ CacheInit /\ RateIdle /\ ExecIdle
    /\ SyncIdle /\ ChangedIdle /\ DirIdle /\ StoreIdle /\ QueryIdle /\ TraceIdle
SpecRetry == InitRetry /\ [][RetryNext]_vars
SpecRetryFair == SpecRetry /\ RetryFairness

InitChanged ==
    /\ ChangedInit /\ NamesIdle /\ WriteIdle /\ RateIdle /\ ExecIdle
    /\ SyncIdle /\ RetryIdle /\ DirIdle /\ StoreIdle /\ QueryIdle /\ TraceIdle
SpecChanged == InitChanged /\ [][ChangedNext]_vars

InitPreflight ==
    /\ PreflightInit /\ OpsIdle /\ NamesIdle /\ WriteIdle /\ CacheInit /\ RateIdle
    /\ ExecIdle /\ RetryIdle /\ ChangedIdle /\ DirIdle /\ StoreIdle /\ QueryIdle /\ TraceIdle
SpecPreflight == InitPreflight /\ [][SyncUntracedNext]_vars

InitDir ==
    /\ DirInit /\ NamesIdle /\ WriteIdle /\ CacheInit /\ RateIdle /\ ExecIdle
    /\ SyncIdle /\ RetryIdle /\ ChangedIdle /\ StoreIdle /\ QueryIdle /\ TraceIdle
SpecDir == InitDir /\ [][DirNext]_vars

InitStore ==
    /\ StoreInit /\ NamesIdle /\ WriteIdle /\ CacheInit /\ RateIdle /\ ExecIdle
    /\ SyncIdle /\ RetryIdle /\ ChangedIdle /\ DirIdle /\ QueryIdle /\ TraceIdle
SpecStore == InitStore /\ [][StoreNext]_vars

InitQuery ==
    /\ RateInit /\ QueryIdle /\ NamesIdle /\ WriteIdle /\ CacheInit /\ ExecIdle
    /\ SyncIdle /\ RetryIdle /\ ChangedIdle /\ DirIdle /\ StoreIdle /\ TraceIdle
SpecQuery == InitQuery /\ [][QueryNext]_vars

InitRun ==
    /\ RunInit /\ OpsIdle /\ NamesIdle /\ WriteIdle /\ CacheInit /\ RateIdle /\ ExecIdle
    /\ RetryIdle /\ ChangedIdle /\ DirIdle /\ StoreIdle /\ QueryIdle
SpecRun == InitRun /\ [][RunNext]_vars

====
